---- MODULE Spec2Model ----
(***************************************************************************)
(* Model of the indexanter pipeline: the page ledger of one archive, the   *)
(* folio segmentation and PDF split (app.py, separar_pdfs), the year /     *)
(* month / type classification (functions/separador_pdf.py) and the        *)
(* numbered delivery bundles (functions/generate_documentos.py).           *)
(*                                                                         *)
(* Text values (CSV cells, directory and file names) are sequences of      *)
(* one-character strings, so that strip(), int(), strptime() and the       *)
(* f-string formats are computed character by character.                   *)
(***************************************************************************)
EXTENDS Integers, Sequences, FiniteSets, TLC

VARIABLES rows, pdf_original, pdfs_separados, split_result,
          pdfs_estructurados, est_result, entregables, bundle_runs,
          fieldnames, imagenes, documentos, last_run, call

vars == <<rows, pdf_original, pdfs_separados, split_result,
          pdfs_estructurados, est_result, entregables, bundle_runs,
          fieldnames, imagenes, documentos, last_run, call>>

(* ------------------------------ bounds --------------------------------- *)
\* longest ledger of the segmentation specification
MaxPages == 4
\* longest ledger of the classification specification
MaxTaxPages == 2
\* longest ledger of the whole-pipeline specification
MaxPipePages == 1
\* number of bundle runs followed in one behaviour
MaxRuns == 2
\* most pages of a source PDF of the ledger specification
MaxLedgerPages == 2
\* longest ledger the ingestion is followed to
MaxLedgerRows == 3
\* number of AI passes followed on one bundle
MaxAiRuns == 1

(* --------------------------- text helpers ------------------------------ *)
EMPTY == <<>>
SI == <<"S", "I">>
NO == <<"N", "O">>
FolioA == <<"1", "9", "1", "2", "0", "2", "6", "4">>
FolioB == <<"1", "9", "1", "2", "0", "2", "6", "5">>

DigitChars == <<"0", "1", "2", "3", "4", "5", "6", "7", "8", "9">>
IsDigit(c) == \E k \in 1..10 : DigitChars[k] = c
DigitVal(c) == (CHOOSE k \in 1..10 : DigitChars[k] = c) - 1
IsSpace(c) == c = " "

\* str.strip(): drop leading and trailing whitespace
RECURSIVE LStrip(_)
LStrip(s) == IF s # <<>> /\ IsSpace(Head(s)) THEN LStrip(Tail(s)) ELSE s
RECURSIVE RStrip(_)
RStrip(s) ==
    IF s # <<>> /\ IsSpace(s[Len(s)]) THEN RStrip(SubSeq(s, 1, Len(s) - 1)) ELSE s
Strip(s) == RStrip(LStrip(s))

Min(S) == CHOOSE x \in S : \A y \in S : x <= y
SeqSet(s) == {s[k] : k \in 1..Len(s)}

UpperChars == <<"A", "B", "C", "D", "E", "F", "G", "H", "I", "J", "K", "L", "M", "N", "O", "P", "Q", "R", "S", "T", "U", "V", "W", "X", "Y", "Z">>
LowerChars == <<"a", "b", "c", "d", "e", "f", "g", "h", "i", "j", "k", "l", "m", "n", "o", "p", "q", "r", "s", "t", "u", "v", "w", "x", "y", "z">>
IsUpper(c) == \E k \in 1..26 : UpperChars[k] = c
IsLower(c) == \E k \in 1..26 : LowerChars[k] = c
LowerChar(c) == IF IsUpper(c) THEN LowerChars[CHOOSE k \in 1..26 : UpperChars[k] = c] ELSE c
UpperChar(c) == IF IsLower(c) THEN UpperChars[CHOOSE k \in 1..26 : LowerChars[k] = c] ELSE c
\* str.lower(), str.upper()
Lower(s) == [i \in 1..Len(s) |-> LowerChar(s[i])]
Upper(s) == [i \in 1..Len(s) |-> UpperChar(s[i])]

\* str.find(pat): position from 0 of the first occurrence, -1 without one
Find(s, pat) ==
    LET hits == {i \in 1..(Len(s) - Len(pat) + 1) : SubSeq(s, i, i + Len(pat) - 1) = pat}
    IN  IF hits = {} THEN -1 ELSE Min(hits) - 1
\* pat in s
Contains(s, pat) == Find(s, pat) # -1

\* the name of the archive the ledger variables describe
DocName == <<"c", "a", "j", "a", "1">>

\* dict.get(col, default) on a csv.DictReader row
Get(row, col, default) == IF col \in DOMAIN row THEN row[col] ELSE default

(* ----------------- segmentation: app.py separar_pdfs ------------------- *)
\* current_group = None
NoGroup == [folio |-> EMPTY, pages |-> <<>>]

\* SegStep without the ocultar test (the grouping of the preview page)
SegStep_IgnoreOcultar(st, row, page_num) ==
    LET folio == Strip(Get(row, "folio", EMPTY))
    IN  IF folio # EMPTY
        THEN << IF st[2] # NoGroup THEN Append(st[1], st[2]) ELSE st[1],
                [folio |-> folio, pages |-> <<page_num>>] >>
        ELSE IF st[2] # NoGroup
             THEN << st[1], [st[2] EXCEPT !.pages = Append(@, page_num)] >>
             ELSE st

\* SegStep that keeps adding to the open group when the folio is the same
SegStep_MergeSameFolio(st, row, page_num) ==
    LET folio == Strip(Get(row, "folio", EMPTY))
        ocultar == Strip(Get(row, "ocultar", NO))
    IN  IF ocultar = SI THEN st
        ELSE IF folio # EMPTY /\ folio # st[2].folio
             THEN << IF st[2] # NoGroup THEN Append(st[1], st[2]) ELSE st[1],
                     [folio |-> folio, pages |-> <<page_num>>] >>
             ELSE IF st[2] # NoGroup
                  THEN << st[1], [st[2] EXCEPT !.pages = Append(@, page_num)] >>
                  ELSE st

\* one iteration of "for i, row in enumerate(rows)"; st = <<folio_groups, current_group>>
SegStep(st, row, page_num) ==
    LET folio == Strip(Get(row, "folio", EMPTY))
        ocultar == Strip(Get(row, "ocultar", NO))
        folio_groups == st[1]
        current_group == st[2]
    IN  IF ocultar # SI
        THEN IF folio # EMPTY
             THEN << IF current_group # NoGroup
                     THEN Append(folio_groups, current_group)
                     ELSE folio_groups,
                     [folio |-> folio, pages |-> <<page_num>>] >>
             ELSE IF current_group # NoGroup
                  THEN << folio_groups,
                          [current_group EXCEPT !.pages = Append(@, page_num)] >>
                  ELSE st
        ELSE st

RECURSIVE SegLoop(_, _, _)
SegLoop(rws, i, st) ==
    IF i > Len(rws) THEN st ELSE SegLoop(rws, i + 1, SegStep(st, rws[i], i))

\* FolioGroups without the append of the group still open after the loop
FolioGroups_DropLast(rws) == SegLoop(rws, 1, << <<>>, NoGroup >>)[1]

\* the folio_groups list after the loop and the trailing append
FolioGroups(rws) ==
    LET st == SegLoop(rws, 1, << <<>>, NoGroup >>)
    IN  IF st[2] # NoGroup THEN Append(st[1], st[2]) ELSE st[1]

(* -------------------- split: app.py separar_pdfs ----------------------- *)
\* InsertPages that takes the 1-based page number for the source position
RECURSIVE InsertPages_OneBased(_, _)
InsertPages_OneBased(pages, page_count) ==
    IF pages = <<>> THEN <<>>
    ELSE LET page_index == Head(pages)
             rest == InsertPages_OneBased(Tail(pages), page_count)
         IN  IF page_index < page_count THEN <<page_index>> \o rest ELSE rest

\* the pages inserted into new_pdf: 0-based source positions, in list order
RECURSIVE InsertPages(_, _)
InsertPages(pages, page_count) ==
    IF pages = <<>> THEN <<>>
    ELSE LET page_index == Head(pages) - 1
             rest == InsertPages(Tail(pages), page_count)
         IN  IF page_index < page_count THEN <<page_index>> \o rest ELSE rest

PdfName(folio) == folio \o <<".", "p", "d", "f">>

\* new_pdf.save(pdf_path): creates or overwrites the file
SaveFile(files, name, content) ==
    [f \in (DOMAIN files) \cup {name} |-> IF f = name THEN content ELSE files[f]]

\* "for group in folio_groups": acc = [files, written, pdfs_creados, failed];
\* the save of group number failAt raises, and the exception leaves the loop
RECURSIVE SplitLoop(_, _, _, _, _)
SplitLoop(groups, g, page_count, failAt, acc) ==
    IF g > Len(groups) THEN acc
    ELSE LET content == InsertPages(groups[g].pages, page_count)
             pdf_name == PdfName(groups[g].folio)
         IN  IF g = failAt
             THEN [acc EXCEPT !.failed = g]
             ELSE SplitLoop(groups, g + 1, page_count, failAt,
                    [acc EXCEPT !.files = SaveFile(@, pdf_name, content),
                                !.written = Append(@, [group |-> g, name |-> pdf_name,
                                                       content |-> content]),
                                !.pdfs_creados = @ + 1])

NoFiles == [f \in {} |-> <<>>]
NoSplit == [status |-> "none", pdf_original |-> <<>>, folio_groups |-> <<>>,
            written |-> <<>>, pdfs_creados |-> 0, failed |-> 0]

\* os.listdir('input'): the name and the page count of each file, in the
\* order of the listing; a source given without a listing stands alone in
\* input/ under the name of the archive
InputFiles ==
    IF "input" \in DOMAIN pdf_original THEN pdf_original.input
    ELSE IF pdf_original.exists
         THEN <<[file |-> DocName \o <<".", "p", "d", "f">>,
                 page_count |-> pdf_original.page_count]>>
         ELSE <<>>

\* str.endswith(suffix)
EndsWith(s, suffix) ==
    Len(s) >= Len(suffix) /\ SubSeq(s, Len(s) - Len(suffix) + 1, Len(s)) = suffix

\* "for file in os.listdir('input')": the position in the listing of the
\* first file that ends in .pdf and holds the archive name, 0 without one
BuscarPdfOriginal(listing, doc_name) ==
    LET hits == {k \in 1..Len(listing) :
                    /\ EndsWith(Lower(listing[k].file), <<".", "p", "d", "f">>)
                    /\ Contains(Lower(listing[k].file), Lower(doc_name))}
    IN  IF hits = {} THEN 0 ELSE Min(hits)

SepararPdfs(failAt) ==
    /\ \E found \in {BuscarPdfOriginal(InputFiles, DocName)} :
       IF found = 0
       THEN /\ split_result' = [NoSplit EXCEPT !.status = "no_source"]
            /\ UNCHANGED pdfs_separados
       ELSE LET folio_groups == FolioGroups(rows)
                out == SplitLoop(folio_groups, 1, InputFiles[found].page_count, failAt,
                                 [files |-> pdfs_separados.files, written |-> <<>>,
                                  pdfs_creados |-> 0, failed |-> 0])
            IN  /\ failAt <= Len(folio_groups)
                /\ pdfs_separados' = [exists |-> TRUE, files |-> out.files]
                /\ split_result' =
                     [status |-> IF out.failed = 0 THEN "success" ELSE "error",
                      pdf_original |-> InputFiles[found].file,
                      folio_groups |-> folio_groups, written |-> out.written,
                      pdfs_creados |-> out.pdfs_creados, failed |-> out.failed]
    /\ UNCHANGED <<rows, pdf_original, pdfs_estructurados, est_result,
                   entregables, bundle_runs, fieldnames, imagenes, documentos, call,
                   last_run>>

(* ------ classification: functions/separador_pdf.py (pure helpers) ------ *)
S_sin_fecha == <<"s", "i", "n", "_", "f", "e", "c", "h", "a">>
S_sin_tipo == <<"s", "i", "n", "_", "t", "i", "p", "o">>
S_egreso == <<"e", "g", "r", "e", "s", "o">>
S_traspaso == <<"t", "r", "a", "s", "p", "a", "s", "o">>
S_ingreso == <<"i", "n", "g", "r", "e", "s", "o">>
S_voucher == <<"v", "o", "u", "c", "h", "e", "r">>
S_tipo_ == <<"t", "i", "p", "o", "_">>

RECURSIVE DigitsValue(_, _)
DigitsValue(s, acc) ==
    IF s = <<>> THEN acc ELSE DigitsValue(Tail(s), acc * 10 + DigitVal(Head(s)))
AllDigits(s) == \A k \in 1..Len(s) : IsDigit(s[k])

\* int(text): surrounding blanks dropped, an optional sign, then decimal digits;
\* anything else raises ValueError (ok = FALSE)
IntParse(text) ==
    LET s == Strip(text)
        signed == s # <<>> /\ Head(s) \in {"+", "-"}
        body == IF signed THEN Tail(s) ELSE s
    IN  IF body # <<>> /\ AllDigits(body)
        THEN [ok |-> TRUE,
              val |-> IF signed /\ Head(s) = "-" THEN 0 - DigitsValue(body, 0)
                      ELSE DigitsValue(body, 0)]
        ELSE [ok |-> FALSE, val |-> 0]

RECURSIVE NatToStr(_)
NatToStr(n) ==
    IF n < 10 THEN <<DigitChars[n + 1]>>
    ELSE NatToStr(n \div 10) \o <<DigitChars[(n % 10) + 1]>>
\* str(n) and f"{n}"
IntToStr(n) == IF n < 0 THEN <<"-">> \o NatToStr(0 - n) ELSE NatToStr(n)
\* f"{n:02d}": zero padded to width two, the sign counted in the width
Fmt02d(n) == IF n >= 0 /\ n < 10 THEN <<"0">> \o NatToStr(n) ELSE IntToStr(n)

\* text.split(sep) for a one-character separator
RECURSIVE SplitOn(_, _, _)
SplitOn(s, sep, cur) ==
    IF s = <<>> THEN <<cur>>
    ELSE IF Head(s) = sep THEN <<cur>> \o SplitOn(Tail(s), sep, <<>>)
         ELSE SplitOn(Tail(s), sep, Append(cur, Head(s)))

\* the regular expressions datetime.strptime uses for %d, %m and %Y
NonZeroDigit(c) == IsDigit(c) /\ c # "0"
MatchDirective(dir, f) ==
    CASE dir = "d" ->
            \/ Len(f) = 1 /\ NonZeroDigit(f[1])
            \/ Len(f) = 2 /\ f[1] = "3" /\ f[2] \in {"0", "1"}
            \/ Len(f) = 2 /\ f[1] \in {"1", "2"} /\ IsDigit(f[2])
            \/ Len(f) = 2 /\ f[1] = "0" /\ NonZeroDigit(f[2])
            \/ Len(f) = 2 /\ f[1] = " " /\ NonZeroDigit(f[2])
      [] dir = "m" ->
            \/ Len(f) = 1 /\ NonZeroDigit(f[1])
            \/ Len(f) = 2 /\ f[1] = "1" /\ f[2] \in {"0", "1", "2"}
            \/ Len(f) = 2 /\ f[1] = "0" /\ NonZeroDigit(f[2])
      [] OTHER -> Len(f) = 4 /\ AllDigits(f)
FieldValue(f) == DigitsValue(LStrip(f), 0)

IsLeap(y) == (y % 4 = 0 /\ y % 100 # 0) \/ y % 400 = 0
DaysInMonth(y, m) ==
    IF m = 2 THEN (IF IsLeap(y) THEN 29 ELSE 28)
    ELSE IF m \in {4, 6, 9, 11} THEN 30 ELSE 31

\* datetime.strptime(s, formato) for a format of three directives joined by one
\* separator character: ok = FALSE stands for ValueError
Strptime(s, formato) ==
    LET fields == SplitOn(s, formato.sep, <<>>)
        At(dir) == fields[CHOOSE k \in 1..3 : formato.order[k] = dir]
    IN  IF /\ Len(fields) = 3
           /\ \A k \in 1..3 : MatchDirective(formato.order[k], fields[k])
        THEN LET y == FieldValue(At("Y"))
                 m == FieldValue(At("m"))
                 d == FieldValue(At("d"))
             IN  IF y >= 1 /\ d <= DaysInMonth(y, m)
                 THEN [ok |-> TRUE, year |-> y, month |-> m]
                 ELSE [ok |-> FALSE, year |-> 0, month |-> 0]
        ELSE [ok |-> FALSE, year |-> 0, month |-> 0]

\* formatos = ['%d/%m/%Y', '%m/%d/%Y', '%Y-%m-%d', '%Y/%m/%d', '%d-%m-%Y']
formatos ==
    << [sep |-> "/", order |-> <<"d", "m", "Y">>],
       [sep |-> "/", order |-> <<"m", "d", "Y">>],
       [sep |-> "-", order |-> <<"Y", "m", "d">>],
       [sep |-> "/", order |-> <<"Y", "m", "d">>],
       [sep |-> "-", order |-> <<"d", "m", "Y">>] >>

RECURSIVE TryFormatos(_, _)
TryFormatos(s, k) ==
    IF k > Len(formatos) THEN [ok |-> FALSE, year |-> 0, month |-> 0]
    ELSE LET r == Strptime(s, formatos[k])
         IN  IF r.ok THEN r ELSE TryFormatos(s, k + 1)

\* ok = FALSE stands for the result (None, None)
extraer_fecha_componentes(fecha_str) ==
    IF Strip(fecha_str) = EMPTY THEN [ok |-> FALSE, year |-> 0, month |-> 0]
    ELSE TryFormatos(Strip(fecha_str), 1)

\* obtener_tipo_documento_nombre with every unknown number sent to sin_tipo
obtener_tipo_documento_nombre_UnknownSinTipo(tipo_num_str) ==
    LET tipo_num == IntParse(Strip(tipo_num_str))
    IN  IF Strip(tipo_num_str) = EMPTY \/ ~tipo_num.ok THEN S_sin_tipo
        ELSE CASE tipo_num.val = 1 -> S_egreso
               [] tipo_num.val = 2 -> S_traspaso
               [] tipo_num.val = 3 -> S_ingreso
               [] tipo_num.val = 4 -> S_voucher
               [] OTHER -> S_sin_tipo

obtener_tipo_documento_nombre(tipo_num_str) ==
    IF Strip(tipo_num_str) = EMPTY THEN S_sin_tipo
    ELSE LET tipo_num == IntParse(Strip(tipo_num_str))
         IN  IF ~tipo_num.ok THEN S_sin_tipo
             ELSE CASE tipo_num.val = 1 -> S_egreso
                    [] tipo_num.val = 2 -> S_traspaso
                    [] tipo_num.val = 3 -> S_ingreso
                    [] tipo_num.val = 4 -> S_voucher
                    [] OTHER -> S_tipo_ \o IntToStr(tipo_num.val)

\* the format specification written in the "Copiado" message:
\* {mes:02d if isinstance(mes, int) else mes}
CopiadoFormatSpec == <<"0", "2", "d", " ", "i", "f", " ",
     "i", "s", "i", "n", "s", "t", "a", "n", "c", "e", "(", "m", "e", "s", ",", " ", "i", "n", "t", ")", " ",
     "e", "l", "s", "e", " ", "m", "e", "s">>

\* format(value, spec) accepts [0][width][type] with one type letter and
\* nothing after it; any other specification raises ValueError
RECURSIVE DropDigits(_)
DropDigits(s) == IF s # <<>> /\ IsDigit(Head(s)) THEN DropDigits(Tail(s)) ELSE s
FormatSpecAccepted(spec) ==
    LET rest == DropDigits(spec)
    IN  rest = <<>> \/ (Len(rest) = 1 /\ rest[1] \in {"d", "s", "x", "b", "o", "n", "c"})

(* ------ classification: separar_pdfs_por_estructura (the handler) ------ *)
NoEst == [status |-> "none", pdfs_creados |-> 0, pdfs_sin_fecha |-> 0,
          pdfs_sin_tipo |-> 0, errores |-> <<>>, placed |-> <<>>]

\* DirectorioDestino that keeps the month level '00' below sin_fecha
DirectorioDestino_MonthUnderSinFecha(fecha, tipo_documento) ==
    IF ~fecha.ok THEN <<S_sin_fecha, <<"0", "0">>, tipo_documento>>
    ELSE <<IntToStr(fecha.year), Fmt02d(fecha.month), tipo_documento>>

\* directorio_destino below base_salida, as a list of path components
DirectorioDestino(fecha, tipo_documento) ==
    IF ~fecha.ok THEN <<S_sin_fecha, tipo_documento>>
    ELSE <<IntToStr(fecha.year), Fmt02d(fecha.month), tipo_documento>>

\* the body of "for i, row in enumerate(rows)" inside its try/except, after
\* the four values of the row have been read
EstPlace(acc, folio, fecha_str, tipo_documento_num, ocultar, i, separados) ==
    LET fecha == extraer_fecha_componentes(fecha_str)
        tipo_documento == obtener_tipo_documento_nombre(tipo_documento_num)
        directorio_destino == DirectorioDestino(fecha, tipo_documento)
        pdf_destino == Append(directorio_destino, PdfName(folio))
        found == PdfName(folio) \in DOMAIN separados
        counted == [acc EXCEPT
                      !.pdfs_sin_fecha = IF fecha.ok THEN @ ELSE @ + 1,
                      !.pdfs_sin_tipo = IF tipo_documento = S_sin_tipo THEN @ + 1 ELSE @,
                      !.dirs = @ \cup {directorio_destino},
                      !.placed = Append(@, [row |-> i, destino |-> pdf_destino,
                                            copied |-> found])]
    IN  IF folio = EMPTY \/ ocultar = SI THEN acc
        ELSE IF found
             THEN LET copied == [counted EXCEPT
                                   !.files = SaveFile(@, pdf_destino,
                                                      separados[PdfName(folio)]),
                                   !.pdfs_creados = @ + 1]
                  IN  \* the "Copiado" message is formatted after the counter is raised
                      IF FormatSpecAccepted(CopiadoFormatSpec) THEN copied
                      ELSE [copied EXCEPT
                              !.errores = Append(@, [kind |-> "exception", row |-> i])]
             ELSE [counted EXCEPT
                     !.errores = Append(@, [kind |-> "missing", row |-> i])]

\* the value of column col on the first non-excluded page, from page j on and
\* before the next non-excluded folio page, that has one
RECURSIVE LaterValue(_, _, _)
LaterValue(j, col, first) ==
    IF j > Len(rows) THEN EMPTY
    ELSE LET hidden == Strip(Get(rows[j], "ocultar", NO)) = SI
             opens == ~hidden /\ Strip(Get(rows[j], "folio", EMPTY)) # EMPTY
         IN  IF opens /\ j # first THEN EMPTY
             ELSE IF ~hidden /\ Strip(Get(rows[j], col, EMPTY)) # EMPTY
                  THEN Strip(Get(rows[j], col, EMPTY))
                  ELSE LaterValue(j + 1, col, first)

\* EstRow that takes date and type from the first page of the document that has them
EstRow_FirstPageWithValue(acc, row, i, separados) ==
    EstPlace(acc, Strip(Get(row, "folio", EMPTY)),
             LaterValue(i, "fecha", i), LaterValue(i, "tipo_documento", i),
             Strip(Get(row, "ocultar", NO)), i, separados)

\* the four reads of the row, then the rest of the loop body
EstRow(acc, row, i, separados) ==
    EstPlace(acc, Strip(Get(row, "folio", EMPTY)),
             Strip(Get(row, "fecha", EMPTY)),
             Strip(Get(row, "tipo_documento", EMPTY)),
             Strip(Get(row, "ocultar", NO)), i, separados)

RECURSIVE EstLoop(_, _, _, _)
EstLoop(rws, i, separados, acc) ==
    IF i > Len(rws) THEN acc
    ELSE EstLoop(rws, i + 1, separados, EstRow(acc, rws[i], i, separados))

SepararPdfsPorEstructura ==
    /\ IF ~pdfs_separados.exists
       THEN /\ est_result' = [NoEst EXCEPT !.status = "failure"]
            /\ UNCHANGED pdfs_estructurados
       ELSE LET out == EstLoop(rows, 1, pdfs_separados.files,
                               [files |-> pdfs_estructurados.files,
                                dirs |-> pdfs_estructurados.dirs,
                                pdfs_creados |-> 0, pdfs_sin_fecha |-> 0,
                                pdfs_sin_tipo |-> 0, errores |-> <<>>,
                                placed |-> <<>>])
            IN  /\ pdfs_estructurados' = [dirs |-> out.dirs, files |-> out.files]
                /\ est_result' = [status |-> "success",
                                  pdfs_creados |-> out.pdfs_creados,
                                  pdfs_sin_fecha |-> out.pdfs_sin_fecha,
                                  pdfs_sin_tipo |-> out.pdfs_sin_tipo,
                                  errores |-> out.errores, placed |-> out.placed]
    /\ UNCHANGED <<rows, pdf_original, pdfs_separados, split_result,
                   entregables, bundle_runs, fieldnames, imagenes, documentos, call,
                   last_run>>

(* ---- bundles: functions/generate_documentos.py (consolidated run) ----- *)
S_ENTREGABLE == <<"E", "N", "T", "R", "E", "G", "A", "B", "L", "E">>

IsPrefix(pat, s) == Len(pat) <= Len(s) /\ SubSeq(s, 1, Len(pat)) = pat
\* s.replace(pat, ""): every occurrence of pat removed, left to right
RECURSIVE RemoveAll(_, _)
RemoveAll(s, pat) ==
    IF s = <<>> THEN <<>>
    ELSE IF IsPrefix(pat, s) THEN RemoveAll(SubSeq(s, Len(pat) + 1, Len(s)), pat)
         ELSE <<Head(s)>> \o RemoveAll(Tail(s), pat)

Max(S) == CHOOSE x \in S : \A y \in S : y <= x

\* nums: the suffixes of the ENTREGABLE folders that int() accepts
FolderNums(folders) ==
    { IntParse(RemoveAll(d, S_ENTREGABLE)).val :
        d \in {e \in folders : /\ IsPrefix(S_ENTREGABLE, e)
                               /\ IntParse(RemoveAll(e, S_ENTREGABLE)).ok} }

\* NextNum that reuses the largest number instead of the one after it
NextNum_NoIncrement(folders) ==
    IF FolderNums(folders) = {} THEN 1 ELSE Max(FolderNums(folders))

\* next_num
NextNum(folders) ==
    LET nums == FolderNums(folders)
    IN  IF nums = {} THEN 1 ELSE Max(nums) + 1

EntregableName(num) == S_ENTREGABLE \o Fmt02d(num)


\* what a run leaves in its folder when no archive has ledger rows: no master
\* report, and the summary without a section of the AI pass
EmptyBundle == [pdfs |-> NoFiles, registros |-> <<>>, excel |-> FALSE,
                datos_ai_ruts |-> <<>>, resumen |-> TRUE, resumen_ia |-> 0]

\* the files of the bundle named <folio>.pdf
Matches(pdfs, folio) ==
    {path \in DOMAIN pdfs : path[Len(path)] = PdfName(folio)}

\* the place in the listing of documentos/ of the archive whose ledger, images
\* and classified files are the variables rows, imagenes, pdfs_estructurados
Propio == [doc_name |-> DocName, csv |-> FALSE, rows |-> <<>>, files |-> NoFiles,
           imagenes |-> {}]

\* os.listdir('documentos') with what each archive holds when the run starts
Archivos ==
    LET own == [doc_name |-> DocName, csv |-> fieldnames # <<>>, rows |-> rows,
                files |-> pdfs_estructurados.files, imagenes |-> DOMAIN imagenes]
    IN  [k \in 1..Len(documentos) |->
           IF documentos[k].doc_name = DocName THEN own ELSE documentos[k]]

\* shutil.copy2 of every PDF below pdfs_estructurados/<archive> to the same
\* relative path of the bundle, for the first k archives (an archive without
\* ledger is passed over): a file copied later replaces the one at its path
RECURSIVE Copiados(_, _)
Copiados(archivos, k) ==
    IF k = 0 THEN NoFiles
    ELSE LET earlier == Copiados(archivos, k - 1)
             a == archivos[k]
         IN  IF ~a.csv THEN earlier
             ELSE [path \in DOMAIN earlier \cup DOMAIN a.files |->
                     IF path \in DOMAIN a.files
                     THEN [documento_origen |-> a.doc_name, content |-> a.files[path]]
                     ELSE earlier[path]]

\* pdfs_copiados after the first k archives
RECURSIVE PdfsCopiados(_, _)
PdfsCopiados(archivos, k) ==
    IF k = 0 THEN 0
    ELSE PdfsCopiados(archivos, k - 1)
            + (IF archivos[k].csv THEN Cardinality(DOMAIN archivos[k].files) ELSE 0)

\* the orders in which os.walk can meet the files of a tree
WalkOrders(paths) ==
    {o \in [1..Cardinality(paths) -> paths] :
        \A i, j \in 1..Cardinality(paths) : i # j => o[i] # o[j]}

\* the files whose name another file of the tree has too: the only ones whose
\* place in the walk decides which file a search by name meets first
Homonimos(paths) ==
    {path \in paths :
        \E other \in paths : other # path /\ other[Len(other)] = path[Len(path)]}

\* the first file of the walk that is one of the candidates, '' without one;
\* orden is the order of the walk over the files that share their name
FirstInWalk(orden, candidates) ==
    IF candidates = {} THEN <<>>
    ELSE IF Cardinality(candidates) = 1 THEN CHOOSE path \in candidates : TRUE
    ELSE orden[Min({i \in 1..Len(orden) : orden[i] \in candidates})]

\* registro: the row of the master report for one ledger row of archive a;
\* pdfs is the bundle once the files of a are copied, and the search for
\* <folio>.pdf walks the whole bundle folder
Registro(a, row, pdfs, orden) ==
    LET folio == Strip(Get(row, "folio", EMPTY))
    IN  [documento_origen |-> a.doc_name,
         numero_hoja |-> Get(row, "numero_hoja", EMPTY),
         nombre_img |-> Get(row, "nombre_img", EMPTY),
         path_img_relativo |-> Get(row, "path_img", EMPTY),
         folio |-> folio,
         rut |-> Get(row, "rut", EMPTY),
         fecha |-> Get(row, "fecha", EMPTY),
         nombre |-> Get(row, "nombre", EMPTY),
         estado |-> Get(row, "estado", EMPTY),
         tipo_documento |-> Get(row, "tipo_documento", EMPTY),
         nota |-> Get(row, "nota", EMPTY),
         ocultar |-> Get(row, "ocultar", NO),
         q1 |-> Get(row, "q1", EMPTY),
         q2 |-> Get(row, "q2", EMPTY),
         pdf_path_entregable |->
            IF folio # EMPTY THEN FirstInWalk(orden, Matches(pdfs, folio)) ELSE <<>>]

\* a report with one registro per document: the pages without folio left out
Registros_PerDocument(a, pdfs, orden) ==
    LET all == [i \in 1..Len(a.rows) |-> Registro(a, a.rows[i], pdfs, orden)]
        Opens(r) == r.folio # EMPTY
    IN  SelectSeq(all, Opens)

\* "for row in rows": one registro per ledger row of archive a, in the order
\* of the ledger
Registros(a, pdfs, orden) ==
    [i \in 1..Len(a.rows) |-> Registro(a, a.rows[i], pdfs, orden)]

\* consolidado_data after the first k archives
RECURSIVE Consolidado(_, _, _)
Consolidado(archivos, k, orden) ==
    IF k = 0 THEN <<>>
    ELSE LET earlier == Consolidado(archivos, k - 1, orden)
         IN  IF ~archivos[k].csv THEN earlier
             ELSE earlier \o Registros(archivos[k], Copiados(archivos, k), orden)

\* a bundle folder that carries no number
EntregableFolder_Unnumbered(next_num) == S_ENTREGABLE

\* entregable_folder below ENTREGABLES/
EntregableFolder(next_num) == EntregableName(next_num)

GenerarEntregableConsolidado ==
    /\ Len(bundle_runs) < MaxRuns
    /\ \E next_num \in {NextNum(DOMAIN entregables)} :
       \E entregable_folder \in {EntregableFolder(next_num)} :
       \E archivos \in {Archivos} :
       \E pdfs \in {Copiados(archivos, Len(archivos))} :
       \E orden \in WalkOrders(Homonimos(DOMAIN pdfs)) :
         LET before == DOMAIN entregables
             consolidado_data == Consolidado(archivos, Len(archivos), orden)
             \* excel_path is bound only when consolidado_data is not empty;
             \* building the result reads it and raises NameError otherwise
             success == consolidado_data # <<>>
             bundle == [pdfs |-> pdfs, registros |-> consolidado_data,
                        excel |-> consolidado_data # <<>>,
                        datos_ai_ruts |-> <<>>, resumen |-> TRUE, resumen_ia |-> 0]
         IN  /\ entregables' =
                  [d \in before \cup {entregable_folder} |->
                      IF d = entregable_folder THEN bundle ELSE entregables[d]]
             /\ bundle_runs' =
                  Append(bundle_runs,
                         [num |-> next_num, before |-> before, success |-> success,
                          pdfs_copiados |->
                             IF success THEN PdfsCopiados(archivos, Len(archivos)) ELSE 0,
                          registros_excel |-> IF success
                                              THEN Len(consolidado_data) ELSE 0])
    /\ UNCHANGED <<rows, pdf_original, pdfs_separados, split_result,
                   pdfs_estructurados, est_result, fieldnames, imagenes,
                   documentos, call, last_run>>

(* ------------- the ledger file: csv.DictReader / DictWriter ------------ *)
\* Python's None: what csv.DictReader gives a column whose cell is missing
\* in a short line, and what a regular expression search without a match gives
None == <<"None">>
\* "if value:" on a text or None
Truthy(v) == v # None /\ v # EMPTY

\* the header process_pdf_to_images_and_csv writes into a new ledger
IngestFieldnames == <<"numero_hoja", "nombre_img", "path_img", "ocultar">>
\* the columns process_document_ocr adds when the header lacks them
OcrColumns == <<"folio", "q1", "q2", "rut", "fecha", "nombre", "estado",
                "tipo_documento", "nota", "ocultar">>
\* new_columns of save_data
SaveColumns == <<"ocultar", "estado", "tipo_documento", "nota">>

\* fieldnames + new_columns
RECURSIVE AddColumns(_, _)
AddColumns(fn, cols) ==
    IF cols = <<>> THEN fn
    ELSE AddColumns(IF Head(cols) \in SeqSet(fn) THEN fn ELSE Append(fn, Head(cols)),
                    Tail(cols))

\* csv.DictReader: one dict per data line, keyed by the header
DictRead(fn, rws) ==
    [i \in 1..Len(rws) |->
        [c \in SeqSet(fn) |-> IF c \in DOMAIN rws[i] THEN rws[i][c] ELSE None]]

\* open(csv_path, 'w'); writeheader(); writerows(dicts): the file is
\* truncated, then a dict with a key outside fieldnames raises ValueError when
\* its turn comes, and the lines before it are what the file holds; a missing
\* key or a None is written as the empty cell
DictWrite(fn, dicts) ==
    LET bad == {i \in 1..Len(dicts) : ~(DOMAIN dicts[i] \subseteq SeqSet(fn))}
        n == IF bad = {} THEN Len(dicts) ELSE Min(bad) - 1
    IN  [ok |-> bad = {},
         rows |-> [i \in 1..n |->
                     [c \in SeqSet(fn) |->
                        IF c \in DOMAIN dicts[i] /\ dicts[i][c] # None
                        THEN dicts[i][c] ELSE EMPTY]]]

\* dict[col] = value
Put(d, col, value) == [c \in DOMAIN d \cup {col} |-> IF c = col THEN value ELSE d[c]]

(* ------------- text functions of functions/extraer_datos.py ------------ *)
\* \w of a regular expression
IsWord(c) == IsDigit(c) \/ IsUpper(c) \/ IsLower(c) \/ c = "_"
\* the character at position i (from 1), or no character outside the text
At(s, i) == IF i \in 1..Len(s) THEN s[i] ELSE ""

\* the letters of the model carry no accent: unicodedata.normalize("NFD")
\* minus the combining marks leaves them as they are, lower() is what acts
normalize_text(s) == Lower(s)
S_comprobante == <<"c", "o", "m", "p", "r", "o", "b", "a", "n", "t", "e">>
contains_comprobante(text) == Contains(normalize_text(text), S_comprobante)

\* number of digits in a row from position i
RECURSIVE DigitRun(_, _)
DigitRun(s, i) == IF i \in 1..Len(s) /\ IsDigit(s[i]) THEN 1 + DigitRun(s, i + 1) ELSE 0
RECURSIVE SpaceRun(_, _)
SpaceRun(s, i) == IF i \in 1..Len(s) /\ IsSpace(s[i]) THEN 1 + SpaceRun(s, i + 1) ELSE 0
\* \b before the word character at i, and after the word character at j
BoundaryBefore(s, i) == i = 1 \/ ~IsWord(At(s, i - 1))
BoundaryAfter(s, j) == j >= Len(s) \/ ~IsWord(At(s, j + 1))

\* the search without its lookbehind: eight digits closing a longer run count
extract_first_folio_token_NoLookbehind(text) ==
    LET hits == {i \in 1..(Len(text) - 7) :
                    /\ DigitRun(text, i) = 8
                    /\ At(text, i + 8) # "-"}
    IN  IF hits = {} THEN None ELSE SubSeq(text, Min(hits), Min(hits) + 7)
\* (?<!\d)(\d{8})(?![\d-]): the first run of exactly eight digits that no
\* hyphen follows
extract_first_folio_token(text) ==
    LET hits == {i \in 1..(Len(text) - 7) :
                    /\ DigitRun(text, i) = 8
                    /\ ~IsDigit(At(text, i - 1))
                    /\ At(text, i + 8) # "-"}
    IN  IF hits = {} THEN None ELSE SubSeq(text, Min(hits), Min(hits) + 7)

\* one separator of a date pattern at position i: its length, 0 without it;
\* kind "s" is \s+, any other kind is that character
SepLen(s, i, kind) ==
    IF kind = "s" THEN SpaceRun(s, i) ELSE IF At(s, i) = kind THEN 1 ELSE 0

\* \b\d{1,2}<sep>\d{1,2}<sep>\d{4}\b tried at position i: the position of
\* the last character of the match, 0 without a match
FechaEnd(s, i, kind) ==
    LET n1 == DigitRun(s, i)
        m1 == SepLen(s, i + n1, kind)
        j == i + n1 + m1
        n2 == DigitRun(s, j)
        m2 == SepLen(s, j + n2, kind)
        k == j + n2 + m2
    IN  IF /\ BoundaryBefore(s, i) /\ n1 \in {1, 2} /\ m1 >= 1
           /\ n2 \in {1, 2} /\ m2 >= 1
           /\ DigitRun(s, k) = 4 /\ BoundaryAfter(s, k + 3)
        THEN k + 3 ELSE 0

\* the separators of the four date patterns, in the order they are tried
FechaPatterns == <<"/", "-", ".", "s">>

RECURSIVE FirstFecha(_, _)
FirstFecha(text, p) ==
    IF p > Len(FechaPatterns) THEN EMPTY
    ELSE LET hits == {i \in 1..Len(text) : FechaEnd(text, i, FechaPatterns[p]) # 0}
         IN  IF hits = {} THEN FirstFecha(text, p + 1)
             ELSE SubSeq(text, Min(hits), FechaEnd(text, Min(hits), FechaPatterns[p]))

extract_fecha_from_text(text) == IF text = EMPTY THEN EMPTY ELSE FirstFecha(text, 1)

\* [\dkK]
IsRutCheck(c) == IsDigit(c) \/ c = "k" \/ c = "K"

\* the three RUT patterns tried at position i: the position of the last
\* character of the match, 0 without a match
RutEnd(s, i, p) ==
    LET n == DigitRun(s, i)
    IN  IF ~BoundaryBefore(s, i) THEN 0
        ELSE IF p = 1
        THEN \* \b\d{1,2}\.\d{3}\.\d{3}-[\dkK]\b
             IF /\ n \in {1, 2} /\ At(s, i + n) = "."
                /\ DigitRun(s, i + n + 1) = 3 /\ At(s, i + n + 4) = "."
                /\ DigitRun(s, i + n + 5) = 3 /\ At(s, i + n + 8) = "-"
                /\ IsRutCheck(At(s, i + n + 9)) /\ BoundaryAfter(s, i + n + 9)
             THEN i + n + 9 ELSE 0
        ELSE IF p = 2
        THEN \* \b\d{7,8}-[\dkK]\b
             IF /\ n \in {7, 8} /\ At(s, i + n) = "-"
                /\ IsRutCheck(At(s, i + n + 1)) /\ BoundaryAfter(s, i + n + 1)
             THEN i + n + 1 ELSE 0
        ELSE \* \b\d{7,9}\b
             IF n \in {7, 8, 9} /\ BoundaryAfter(s, i + n - 1) THEN i + n - 1 ELSE 0

RECURSIVE FirstRut(_, _)
FirstRut(text, p) ==
    IF p > 3 THEN EMPTY
    ELSE LET hits == {i \in 1..Len(text) : RutEnd(text, i, p) # 0}
         IN  IF hits = {} THEN FirstRut(text, p + 1)
             ELSE Upper(SubSeq(text, Min(hits), RutEnd(text, Min(hits), p)))

\* text.replace(',', '.').replace(':', '.')
text_normalizado(text) ==
    [i \in 1..Len(text) |-> IF text[i] \in {",", ":"} THEN "." ELSE text[i]]

extract_rut_from_text(text) ==
    IF text = EMPTY THEN EMPTY ELSE FirstRut(text_normalizado(text), 1)

\* re.sub(r'[.-]', '', s)
RECURSIVE DropDotsAndHyphens(_)
DropDotsAndHyphens(s) ==
    IF s = <<>> THEN <<>>
    ELSE IF Head(s) \in {".", "-"} THEN DropDotsAndHyphens(Tail(s))
         ELSE <<Head(s)>> \o DropDotsAndHyphens(Tail(s))

\* re.sub(r'\s+', ' ', s)
RECURSIVE CollapseSpaces(_)
CollapseSpaces(s) ==
    IF s = <<>> THEN <<>>
    ELSE IF IsSpace(Head(s))
         THEN <<" ">> \o CollapseSpaces(SubSeq(s, SpaceRun(s, 1) + 1, Len(s)))
         ELSE <<Head(s)>> \o CollapseSpaces(Tail(s))

\* position from 0 of the RUT in the text, -1 when it is not there: find(),
\* then the search that leaves dots and hyphens out of both sides
RutPos(text, rut) ==
    LET exact == Find(Upper(text), Upper(rut))
        clean_rut == DropDotsAndHyphens(rut)
        hits == {i \in 0..(Len(text) - Len(clean_rut)) :
                    DropDotsAndHyphens(SubSeq(text, i + 1, i + Len(clean_rut))) = clean_rut}
    IN  IF exact # -1 THEN exact ELSE IF hits = {} THEN -1 ELSE Min(hits)

extract_nombre_from_q1(text, rut) ==
    IF text = EMPTY \/ rut = EMPTY THEN EMPTY
    ELSE LET rut_pos == RutPos(text, rut)
         IN  IF rut_pos > 0 THEN Strip(CollapseSpaces(Strip(SubSeq(text, 1, rut_pos))))
             ELSE EMPTY

S_VIGENTE == <<"V", "I", "G", "E", "N", "T", "E">>
S_PENDIENTE == <<"P", "E", "N", "D", "I", "E", "N", "T", "E">>
S_ACTUALIZADO == <<"A", "C", "T", "U", "A", "L", "I", "Z", "A", "D", "O">>
S_NULO == <<"N", "U", "L", "O">>

extract_estado_from_text(text) ==
    LET text_normalized == Upper(text)
    IN  IF text = EMPTY THEN EMPTY
        ELSE IF Contains(text_normalized, S_VIGENTE) THEN <<"1">>
        ELSE IF Contains(text_normalized, S_PENDIENTE) THEN <<"2">>
        ELSE IF Contains(text_normalized, S_ACTUALIZADO) THEN <<"3">>
        ELSE IF Contains(text_normalized, S_NULO) THEN <<"4">>
        ELSE EMPTY

\* palabras_clave
palabras_clave == << <<<<"E", "G", "R", "E", "S", "O">>, <<"1">> >>, <<<<"T", "R", "A", "S", "P", "A", "S", "O">>, <<"2">> >>,
                     <<<<"I", "N", "G", "R", "E", "S", "O">>, <<"3">> >>, <<<<"V", "O", "U", "C", "H", "E", "R">>, <<"4">> >> >>

\* the loop keeping the first keyword of the table that the text holds
RECURSIVE TipoLoop_TableOrder(_, _, _)
TipoLoop_TableOrder(text_normalized, k, best) ==
    IF k > Len(palabras_clave) THEN best[2]
    ELSE LET posicion == Find(text_normalized, palabras_clave[k][1])
         IN  TipoLoop_TableOrder(text_normalized, k + 1,
                      IF posicion # -1 /\ best[2] = EMPTY
                      THEN <<posicion, palabras_clave[k][2]>> ELSE best)
\* "for palabra, codigo in palabras_clave": best is <<primera_posicion, tipo_encontrado>>
RECURSIVE TipoLoop(_, _, _)
TipoLoop(text_normalized, k, best) ==
    IF k > Len(palabras_clave) THEN best[2]
    ELSE LET posicion == Find(text_normalized, palabras_clave[k][1])
         IN  TipoLoop(text_normalized, k + 1,
                      IF posicion # -1 /\ posicion < best[1]
                      THEN <<posicion, palabras_clave[k][2]>> ELSE best)

extract_tipo_documento_from_text(text) ==
    IF text = EMPTY THEN EMPTY ELSE TipoLoop(Upper(text), 1, <<Len(text), EMPTY>>)

(* ---- ingestion: generate_documentos.py process_pdf_to_images_and_csv -- *)
\* the record of the latest run of a ledger handler or of the AI pass: what
\* it was, whether it returned success, the pages it handled in order, and
\* the page it stopped at (0 when it ran to its end)
NoRun == [op |-> "none", ok |-> TRUE, pages |-> <<>>, stop |-> 0]

\* call: the last call of a function that only reads, with its argument and
\* the value it returned
NoCall == [fn |-> "none", arg |-> <<>>, value |-> <<>>]

RunRecord(op, ok, pages, stop) == [op |-> op, ok |-> ok, pages |-> pages, stop |-> stop]

\* no file in documentos/<archive>/imagenes
NoImages == [name \in {} |-> [page_text |-> EMPTY, q1 |-> EMPTY, q2 |-> EMPTY]]

\* f"{page_num:04d}"
image_number(page_num) ==
    LET digits == NatToStr(page_num)
    IN  [k \in 1..(4 - Len(digits)) |-> "0"] \o digits
image_filename(page_num) == image_number(page_num) \o <<".", "j", "p", "g">>
relative_path(page_num) == <<"i", "m", "a", "g", "e", "n", "e", "s", "/">> \o image_filename(page_num)

\* csv_row = [page_num, image_filename, relative_path, 'NO'], as csv.writer
\* lays it down on a line
csv_row(page_num) ==
    [numero_hoja |-> NatToStr(page_num), nombre_img |-> image_filename(page_num),
     path_img |-> relative_path(page_num), ocultar |-> NO]

\* the function called on the archive: the ledger is opened for append and
\* gets its header when it is new; fitz.open raises when the source is not
\* there; "for i in range(n_pages)" renders and appends every page from the
\* first one, until page failAt raises (failAt = 0: no page does)
process_pdf_to_images_and_csv(failAt) ==
    LET write_header == fieldnames = <<>>
        n_pages == IF pdf_original.exists THEN pdf_original.page_count ELSE 0
        done == IF failAt = 0 THEN n_pages ELSE failAt - 1
        saved == {image_filename(i) : i \in 1..done}
    IN  /\ failAt \in 0..n_pages
        /\ Len(rows) + done <= MaxLedgerRows
        /\ fieldnames' = IF write_header THEN IngestFieldnames ELSE fieldnames
        /\ rows' = rows \o [i \in 1..done |-> csv_row(i)]
        /\ imagenes' = [name \in DOMAIN imagenes \cup saved |->
                          IF name \in saved
                          THEN pdf_original.pages[CHOOSE i \in 1..done :
                                                     image_filename(i) = name]
                          ELSE imagenes[name]]
        /\ last_run' = RunRecord("process_pdf_to_images_and_csv",
                                 pdf_original.exists /\ failAt = 0,
                                 [i \in 1..done |-> i], failAt)
        /\ UNCHANGED <<pdf_original, pdfs_separados, split_result, pdfs_estructurados,
                       est_result, entregables, bundle_runs, documentos, call>>

\* app.py process_pdf: the route refuses a source that is not in input/ and
\* an archive whose folder in documentos/ exists, and calls the function
\* otherwise
process_pdf(failAt) ==
    IF ~pdf_original.exists \/ fieldnames # <<>>
    THEN /\ failAt = 0
         /\ last_run' = RunRecord("process_pdf", FALSE, <<>>, 0)
         /\ UNCHANGED <<rows, pdf_original, pdfs_separados, split_result,
                        pdfs_estructurados, est_result, entregables, bundle_runs,
                        fieldnames, imagenes, documentos, call>>
    ELSE process_pdf_to_images_and_csv(failAt)

(* ---------------------- the page images of the model ------------------ *)
\* what pytesseract reads on a page and on its regions Q1 and Q2: a voucher
\* with all its fields, one whose RUT was read with commas, a page without
\* the marker, a marker followed by nine digits, a page on which OCR reads
\* nothing, and a voucher whose regions are blank
Img_A == [page_text |-> <<"C", "O", "M", "P", "R", "O", "B", "A", "N", "T", "E", " ", "D", "E", " ", "E", "G", "R", "E", "S", "O", " ", "1", "9", "1", "2", "0", "2", "6", "4">>,
          q1 |-> <<"J", "U", "A", "N", " ", "P", "E", "R", "E", "Z", " ", "1", "2", ".", "3", "4", "5", ".", "6", "7", "8", "-", "9">>, q2 |-> <<"1", "5", "/", "0", "3", "/", "2", "0", "2", "4", " ", "V", "I", "G", "E", "N", "T", "E">>]
Img_B == [page_text |-> <<"C", "o", "m", "p", "r", "o", "b", "a", "n", "t", "e", " ", "t", "r", "a", "s", "p", "a", "s", "o", " ", "1", "9", "1", "2", "0", "2", "6", "5">>,
          q1 |-> <<"A", "N", "A", " ", "1", "2", ",", "3", "4", "5", ",", "6", "7", "8", "-", "k">>, q2 |-> <<"N", "U", "L", "O", " ", "1", "-", "2", "-", "2", "0", "2", "4">>]
Img_C == [page_text |-> <<"I", "N", "G", "R", "E", "S", "O", " ", "1", "9", "1", "2", "0", "2", "6", "4">>,
          q1 |-> <<"X", " ", "1", "2", "3", "4", "5", "6", "7">>, q2 |-> <<"P", "E", "N", "D", "I", "E", "N", "T", "E">>]
Img_D == [page_text |-> <<"c", "o", "m", "p", "r", "o", "b", "a", "n", "t", "e", " ", "1", "9", "1", "2", "0", "2", "6", "4", "5", " ", "v", "o", "u", "c", "h", "e", "r">>,
          q1 |-> <<"Y", " ", "7", "6", "5", "4", "3", "2", "1", "-", "K">>, q2 |-> <<"A", "C", "T", "U", "A", "L", "I", "Z", "A", "D", "O">>]
Img_E == [page_text |-> EMPTY, q1 |-> EMPTY, q2 |-> EMPTY]
Img_F == [page_text |-> <<"C", "O", "M", "P", "R", "O", "B", "A", "N", "T", "E", " ", "1", "9", "1", "2", "0", "2", "6", "5">>, q1 |-> EMPTY, q2 |-> EMPTY]
PageImages == <<Img_A, Img_B, Img_C, Img_D, Img_E, Img_F>>

(* ------ extraction: functions/extraer_datos.py process_document_ocr ---- *)
\* the columns the branch for a missing image blanks
BlankedColumns == {"folio", "q1", "q2", "rut", "fecha", "nombre", "estado",
                   "tipo_documento", "nota"}

\* the reading without the marker test: the folio is looked for on every page
Leer_NoMarkerGate(img) ==
    LET folio == extract_first_folio_token(img.page_text)
        found == Truthy(folio)
        rut == IF found THEN extract_rut_from_text(img.q1) ELSE EMPTY
    IN  [folio |-> folio,
         q1 |-> IF found THEN img.q1 ELSE EMPTY,
         q2 |-> IF found THEN img.q2 ELSE EMPTY,
         rut |-> rut,
         fecha |-> IF found THEN extract_fecha_from_text(img.q2) ELSE EMPTY,
         nombre |-> IF found THEN extract_nombre_from_q1(img.q1, rut) ELSE EMPTY,
         estado |-> IF found THEN extract_estado_from_text(img.q2) ELSE EMPTY,
         tipo_documento |-> extract_tipo_documento_from_text(img.page_text)]

\* what one pass of the loop computes from the image of its page, before
\* it touches the row; img holds what pytesseract reads on the whole page
\* (the empty text when it raises) and on the regions Q1 and Q2
Leer(img) ==
    LET has_comp == contains_comprobante(img.page_text)
        folio == IF has_comp THEN extract_first_folio_token(img.page_text) ELSE EMPTY
        found == Truthy(folio)
        rut == IF found THEN extract_rut_from_text(img.q1) ELSE EMPTY
    IN  [folio |-> folio,
         q1 |-> IF found THEN img.q1 ELSE EMPTY,
         q2 |-> IF found THEN img.q2 ELSE EMPTY,
         rut |-> rut,
         fecha |-> IF found THEN extract_fecha_from_text(img.q2) ELSE EMPTY,
         nombre |-> IF found THEN extract_nombre_from_q1(img.q1, rut) ELSE EMPTY,
         estado |-> IF found THEN extract_estado_from_text(img.q2) ELSE EMPTY,
         tipo_documento |-> extract_tipo_documento_from_text(img.page_text)]

\* Leer on every page image of the model, computed once
Lecturas == [img \in SeqSet(PageImages) |-> Leer(img)]

\* the body of the loop with every value the row already holds kept, the
\* page read only for the columns the row lacks
OcrRow_KeepExisting(row) ==
    IF row["nombre_img"] \in DOMAIN imagenes
    THEN LET leido == Lecturas[imagenes[row["nombre_img"]]]
         IN  [c \in DOMAIN row \cup SeqSet(OcrColumns) |->
                IF c = "nota" THEN Get(row, "nota", EMPTY)
                ELSE IF c = "ocultar" THEN Get(row, "ocultar", NO)
                ELSE IF c \in DOMAIN leido THEN Get(row, c, leido[c])
                ELSE row[c]]
    ELSE [c \in DOMAIN row \cup SeqSet(OcrColumns) |->
            IF c \in BlankedColumns THEN EMPTY
            ELSE IF c = "ocultar" THEN Get(row, "ocultar", NO)
            ELSE row[c]]
\* the body of "for i, row in enumerate(rows)": the row after its page has
\* been read, or blanked when its image is not in the folder
OcrRow(row) ==
    IF row["nombre_img"] \in DOMAIN imagenes
    THEN LET leido == Lecturas[imagenes[row["nombre_img"]]]
         IN  [c \in DOMAIN row \cup SeqSet(OcrColumns) |->
                IF c = "estado" THEN Get(row, "estado", leido.estado)
                ELSE IF c = "nota" THEN Get(row, "nota", EMPTY)
                ELSE IF c = "ocultar" THEN Get(row, "ocultar", NO)
                ELSE IF c \in DOMAIN leido THEN leido[c]
                ELSE row[c]]
    ELSE [c \in DOMAIN row \cup SeqSet(OcrColumns) |->
            IF c \in BlankedColumns THEN EMPTY
            ELSE IF c = "ocultar" THEN Get(row, "ocultar", NO)
            ELSE row[c]]

\* the rows in memory once the loop has handled the first done of them
OcrLoop(dicts, done) ==
    [i \in 1..Len(dicts) |-> IF i <= done THEN OcrRow(dicts[i]) ELSE dicts[i]]

\* a run that keeps its rows in memory and writes the ledger once, after the
\* last page
OcrWritten_OnlyAtEnd(n, stopAt) == IF stopAt = 0 THEN n ELSE 0

\* the ledger is written at the end of every pass of the loop: when the run
\* stops while page stopAt is being read (stopAt = 0: it does not stop), the
\* last write is the one of the page before
OcrWritten(n, stopAt) == IF stopAt = 0 THEN n ELSE stopAt - 1

process_document_ocr(stopAt) ==
    /\ IF fieldnames = <<>>
       THEN \* no ledger, no image folder: return False
            /\ stopAt = 0
            /\ last_run' = RunRecord("process_document_ocr", FALSE, <<>>, 0)
            /\ UNCHANGED <<fieldnames, rows>>
       ELSE LET dicts == DictRead(fieldnames, rows)
                updated_fieldnames == AddColumns(fieldnames, OcrColumns)
                handled == IF stopAt = 0 THEN Len(rows) ELSE stopAt - 1
                written == OcrWritten(Len(rows), stopAt)
            IN  /\ stopAt \in 0..Len(rows)
                /\ IF written = 0 THEN UNCHANGED <<fieldnames, rows>>
                   ELSE /\ fieldnames' = updated_fieldnames
                        /\ rows' = DictWrite(updated_fieldnames,
                                             OcrLoop(dicts, written)).rows
                /\ last_run' = RunRecord("process_document_ocr", stopAt = 0,
                                         [i \in 1..handled |-> i], stopAt)
    /\ UNCHANGED <<pdf_original, pdfs_separados, split_result, pdfs_estructurados,
                   est_result, entregables, bundle_runs, imagenes, documentos, call>>

(* ------------------- the human edit: app.py save_data ------------------ *)
\* the columns save_data sets from the form
FormColumns == <<"folio", "rut", "fecha", "nombre", "ocultar", "estado",
                 "tipo_documento", "nota">>

\* request.form.get(col, default).strip() for every column of the form
RECURSIVE SetFromForm(_, _, _)
SetFromForm(row, form, cols) ==
    IF cols = <<>> THEN row
    ELSE SetFromForm(Put(row, Head(cols),
                         Strip(Get(form, Head(cols),
                                   IF Head(cols) = "ocultar" THEN NO ELSE EMPTY))),
                     form, Tail(cols))

save_data(page, form) ==
    /\ IF fieldnames = <<>>
       THEN \* no ledger for the archive
            /\ page = 1
            /\ last_run' = RunRecord("save_data", FALSE, <<>>, 0)
            /\ UNCHANGED <<fieldnames, rows>>
       ELSE LET read == DictRead(fieldnames, rows)
                new_fieldnames == AddColumns(fieldnames, SaveColumns)
                \* a column that is added gets its default in every row
                defaulted == [i \in 1..Len(read) |->
                                [c \in SeqSet(new_fieldnames) |->
                                   IF c \in DOMAIN read[i] THEN read[i][c]
                                   ELSE IF c = "ocultar" THEN NO ELSE EMPTY]]
            IN  IF page < 1 \/ page > Len(rows)
                THEN \* 'Página inválida'
                     /\ last_run' = RunRecord("save_data", FALSE, <<>>, page)
                     /\ UNCHANGED <<fieldnames, rows>>
                ELSE LET edited == [defaulted EXCEPT
                                      ![page] = SetFromForm(@, form, FormColumns)]
                     IN  \E w \in {DictWrite(new_fieldnames, edited)} :
                            /\ fieldnames' = new_fieldnames
                            /\ rows' = w.rows
                            /\ last_run' = RunRecord("save_data", w.ok, <<page>>, page)
    /\ UNCHANGED <<pdf_original, pdfs_separados, split_result, pdfs_estructurados,
                   est_result, entregables, bundle_runs, imagenes, documentos, call>>

(* ------- the AI pass: functions/get_rut_ai.py on a bundle's report ----- *)
\* str(value) of a cell that pandas reads back from the sheet: the empty
\* cell comes back as NaN
ExcelStr(v) == IF v = EMPTY THEN <<"n", "a", "n">> ELSE v

\* the image files of an archive of documentos/
ImagenesDe(doc_name) ==
    IF doc_name = DocName THEN DOMAIN imagenes
    ELSE UNION {documentos[k].imagenes :
                  k \in {j \in 1..Len(documentos) : documentos[j].doc_name = doc_name}}

\* os.path.exists(path_img_completo): documentos/<archive>/<path_img>, which
\* is the folder of the archive when the ledger row has no path_img
PathImgExists(r) ==
    \/ r.path_img_relativo = EMPTY
    \/ \E name \in ImagenesDe(r.documento_origen) :
          r.path_img_relativo = <<"i", "m", "a", "g", "e", "n", "e", "s", "/">> \o name

\* the value of datos_ai_ruts for one row of the sheet; respuesta is what
\* extract_ruts_from_image returns, old the value the row had
DatosAi(r, respuesta, old) ==
    LET folio == Strip(ExcelStr(r.folio))
    IN  IF folio # EMPTY /\ PathImgExists(r) THEN respuesta
        ELSE IF folio # EMPTY THEN "Archivo de imagen no existe"
        ELSE old

\* the bundle after the pass: the sheet is written again over the report with
\* the column datos_ai_ruts, and a section is appended to RESUMEN.txt
AiBundle(bundle, respuesta) ==
    [bundle EXCEPT
       !.datos_ai_ruts =
          [i \in 1..Len(bundle.registros) |->
              DatosAi(bundle.registros[i], respuesta,
                      IF bundle.datos_ai_ruts = <<>> THEN ""
                      ELSE bundle.datos_ai_ruts[i])],
       !.resumen_ia = IF bundle.resumen THEN @ + 1 ELSE @]

\* the passes made so far over the bundles in S
RECURSIVE AiPasses(_)
AiPasses(S) ==
    IF S = {} THEN 0
    ELSE LET d == CHOOSE x \in S : TRUE
         IN  entregables[d].resumen_ia + AiPasses(S \ {d})

procesar_entregable_con_ai(entregable_num, api_key, respuesta) ==
    LET entregable_folder == EntregableName(entregable_num)
    IN  /\ IF \/ entregable_folder \notin DOMAIN entregables
              \/ ~entregables[entregable_folder].excel
              \/ ~api_key
           THEN \* no such bundle, no master report in it, or no API key
                /\ respuesta = "error"
                /\ last_run' = RunRecord("procesar_entregable_con_ai", FALSE, <<>>, 0)
                /\ UNCHANGED entregables
           ELSE /\ AiPasses(DOMAIN entregables) < MaxAiRuns
                /\ entregables' =
                     [entregables EXCEPT
                        ![entregable_folder] = AiBundle(@, respuesta)]
                /\ last_run' = RunRecord("procesar_entregable_con_ai", TRUE, <<>>, 0)
        /\ UNCHANGED <<rows, pdf_original, pdfs_separados, split_result,
                       pdfs_estructurados, est_result, bundle_runs, fieldnames,
                       imagenes, documentos, call>>

(* --------------------------- initial states ---------------------------- *)
SegRows == { [folio |-> f, ocultar |-> o, fecha |-> EMPTY, tipo_documento |-> EMPTY] :
               f \in {EMPTY, FolioA, FolioB}, o \in {SI, NO} }
\* a ledger straight after ingestion has no extraction columns yet
IngestedRows == { [ocultar |-> o] : o \in {SI, NO} }

Ledgers(RowSet, n) == UNION { [1..k -> RowSet] : k \in 0..n }

\* the source PDF in input/: missing, with one page per ledger row, or with
\* one page fewer than the ledger has rows
SourcePdfs(n) == {[exists |-> FALSE, page_count |-> 0]}
                    \cup {[exists |-> TRUE, page_count |-> k] : k \in {n - 1, n} \cap Nat}

\* the header of a ledger that went through extraction
ExtractedFieldnames == AddColumns(IngestFieldnames, OcrColumns)

\* one archive whose ledger exists, no other archive beside it, and no
\* ledger handler run yet
InitLedgerRest ==
    /\ fieldnames = IF rows # <<>> /\ "folio" \notin DOMAIN rows[1]
                    THEN IngestFieldnames ELSE ExtractedFieldnames
    /\ imagenes = NoImages
    /\ documentos = <<Propio>>
    /\ last_run = NoRun

InitRest ==
    /\ pdfs_separados = [exists |-> FALSE, files |-> NoFiles]
    /\ split_result = NoSplit
    /\ pdfs_estructurados = [dirs |-> {}, files |-> NoFiles]
    /\ est_result = NoEst
    /\ entregables = [d \in {} |-> EmptyBundle]
    /\ bundle_runs = <<>>
    /\ call = NoCall

InitSeg ==
    /\ rows \in Ledgers(SegRows, MaxPages) \cup Ledgers(IngestedRows, MaxPages)
    /\ pdf_original \in SourcePdfs(Len(rows))
    /\ InitRest
    /\ InitLedgerRest

NextSeg == \E failAt \in 0..MaxPages : SepararPdfs(failAt)

SpecSeg == InitSeg /\ [][NextSeg]_vars

(* ---------------- inputs of the classification specification ----------- *)
D_15_03_2024 == <<"1", "5", "/", "0", "3", "/", "2", "0", "2", "4">>
D_03_15_2024 == <<"0", "3", "/", "1", "5", "/", "2", "0", "2", "4">>
D_2024_03_15 == <<"2", "0", "2", "4", "-", "0", "3", "-", "1", "5">>
D_15_03_2024_dash == <<"1", "5", "-", "0", "3", "-", "2", "0", "2", "4">>
D_15_03_2024_dot == <<"1", "5", ".", "0", "3", ".", "2", "0", "2", "4">>
D_15_03_2024_space == <<"1", "5", " ", "0", "3", " ", "2", "0", "2", "4">>
D_31_02_2024 == <<"3", "1", "/", "0", "2", "/", "2", "0", "2", "4">>
D_05_12_2023 == <<"0", "5", "/", "1", "2", "/", "2", "0", "2", "3">>
D_1_2_2024 == <<"1", "/", "2", "/", "2", "0", "2", "4">>
D_29_02_2023 == <<"2", "9", "/", "0", "2", "/", "2", "0", "2", "3">>

T_1 == <<"1">>
T_2 == <<"2">>
T_3 == <<"3">>
T_4 == <<"4">>
T_5 == <<"5">>
T_0 == <<"0">>
T_01 == <<"0", "1">>
T_x == <<"x">>
T_neg3 == <<"-", "3">>
T_12 == <<"1", "2">>

\* the (fecha, tipo_documento) values a ledger of the classification
\* specification draws from: one non-empty pair per ledger
TaxPairs ==
    { <<D_15_03_2024, T_1>>, <<D_03_15_2024, T_2>>, <<D_2024_03_15, T_3>>,
      <<D_15_03_2024_dash, T_4>>, <<D_15_03_2024_dot, T_5>>,
      <<D_15_03_2024_space, T_0>>, <<D_31_02_2024, T_01>>, <<D_05_12_2023, T_x>>,
      <<D_1_2_2024, T_neg3>>, <<D_29_02_2023, T_12>>,
      <<D_15_03_2024, EMPTY>>, <<EMPTY, T_1>> }

TaxRows(pair) ==
    { [folio |-> f, ocultar |-> NO, fecha |-> x[1], tipo_documento |-> x[2]] :
        f \in {EMPTY, FolioA}, x \in {pair, <<EMPTY, EMPTY>>} }
      \cup { [folio |-> f, ocultar |-> SI, fecha |-> EMPTY, tipo_documento |-> EMPTY] :
                f \in {EMPTY, FolioA} }
      \cup { [folio |-> FolioB, ocultar |-> NO, fecha |-> EMPTY,
              tipo_documento |-> EMPTY] }

InitTax ==
    /\ rows \in UNION { Ledgers(TaxRows(pair), MaxTaxPages) : pair \in TaxPairs }
    /\ pdf_original = [exists |-> TRUE, page_count |-> MaxTaxPages]
    /\ InitRest
    /\ InitLedgerRest

NextTax ==
    \/ \E failAt \in 0..MaxTaxPages : SepararPdfs(failAt)
    \/ SepararPdfsPorEstructura

SpecTax == InitTax /\ [][NextTax]_vars

(* ---------------- the whole pipeline on one small archive -------------- *)
PipeRows ==
    { [folio |-> f, ocultar |-> o, fecha |-> EMPTY, tipo_documento |-> EMPTY] :
        f \in {EMPTY, FolioA, FolioB}, o \in {SI, NO} }
      \cup { [folio |-> FolioA, ocultar |-> NO, fecha |-> D_15_03_2024,
              tipo_documento |-> T_1] }

\* bundles left by earlier runs made before anything was ingested
InitialBundleCounts == {0, 8, 98}

Init ==
    /\ rows \in Ledgers(PipeRows, MaxPipePages)
    /\ pdf_original = [exists |-> TRUE, page_count |-> MaxPipePages]
    /\ pdfs_separados = [exists |-> FALSE, files |-> NoFiles]
    /\ split_result = NoSplit
    /\ pdfs_estructurados = [dirs |-> {}, files |-> NoFiles]
    /\ est_result = NoEst
    /\ \E n \in InitialBundleCounts :
          entregables = [d \in {EntregableName(k) : k \in 1..n} |-> EmptyBundle]
    /\ bundle_runs = <<>>
    /\ call = NoCall
    /\ InitLedgerRest

Next ==
    \/ \E failAt \in 0..MaxPipePages : SepararPdfs(failAt)
    \/ SepararPdfsPorEstructura
    \/ GenerarEntregableConsolidado

Spec == Init /\ [][Next]_vars

(* -------------- the ledger from ingestion to the human edit ------------ *)
\* the source PDFs of n pages: n pages in a row of the cycle of PageImages
SourcePages(n) ==
    { [i \in 1..n |-> PageImages[((start + i - 2) % Len(PageImages)) + 1]] :
        start \in 1..Len(PageImages) }

LedgerSources ==
    {[exists |-> FALSE, page_count |-> 0, pages |-> <<>>]}
       \cup {[exists |-> TRUE, page_count |-> Len(p), pages |-> p] :
               p \in UNION {SourcePages(n) : n \in 1..MaxLedgerPages}}

\* what the editing form posts: every field filled (the folio typed with
\* blanks around it, the exclusion box ticked), and every field left blank
\* (an unticked box is not posted)
Form_Full == [folio |-> <<" ", "1", "9", "1", "2", "0", "2", "6", "4", " ">>, rut |-> <<"1", "-", "9">>, fecha |-> D_15_03_2024,
              nombre |-> <<"A", "N", "A">>, ocultar |-> SI, estado |-> <<"2">>,
              tipo_documento |-> T_1, nota |-> <<"v", "e", "r">>]
Form_Blank == [folio |-> EMPTY, rut |-> EMPTY, fecha |-> EMPTY, nombre |-> EMPTY,
               estado |-> EMPTY, tipo_documento |-> EMPTY, nota |-> EMPTY]
Forms == {Form_Full, Form_Blank}

\* nothing of the archive is in documentos/ yet
InitIngest ==
    /\ rows = <<>>
    /\ fieldnames = <<>>
    /\ imagenes = NoImages
    /\ last_run = NoRun
    /\ documentos = <<Propio>>
    /\ pdf_original \in LedgerSources
    /\ InitRest

NextIngest ==
    \/ \E failAt \in 0..MaxLedgerPages : process_pdf(failAt)
    \/ \E failAt \in 0..MaxLedgerPages : process_pdf_to_images_and_csv(failAt)

SpecIngest == InitIngest /\ [][NextIngest]_vars

\* the images of the first n pages, all of them or all but one: the folder
\* is plain files, and process_document_ocr has a branch for the image that
\* is not found
ImageFolders(pages, n) ==
    LET all == [name \in {image_filename(i) : i \in 1..n} |->
                  pages[CHOOSE i \in 1..n : image_filename(i) = name]]
    IN  {all} \cup {[name \in DOMAIN all \ {lost} |-> all[name]] : lost \in DOMAIN all}

\* the archive as an ingestion left it, after its first n pages
InitOcr ==
    /\ pdf_original \in LedgerSources
    /\ \E n \in 0..pdf_original.page_count :
          /\ rows = [i \in 1..n |-> csv_row(i)]
          /\ imagenes \in ImageFolders(pdf_original.pages, n)
    /\ fieldnames = IngestFieldnames
    /\ last_run = NoRun
    /\ documentos = <<Propio>>
    /\ InitRest

NextOcr ==
    \/ \E stopAt \in 0..MaxLedgerPages : process_document_ocr(stopAt)
    \/ \E page \in 0..(Len(rows) + 1), form \in Forms : save_data(page, form)

SpecOcr == InitOcr /\ [][NextOcr]_vars

(* ------------- bundles over several archives, and the AI pass ---------- *)
\* a ledger row after extraction
ExtractedRow(page_num, folio, ocultar, fecha, tipo_documento) ==
    [numero_hoja |-> NatToStr(page_num), nombre_img |-> image_filename(page_num),
     path_img |-> relative_path(page_num), ocultar |-> ocultar, folio |-> folio,
     q1 |-> EMPTY, q2 |-> EMPTY, rut |-> EMPTY, fecha |-> fecha, nombre |-> EMPTY,
     estado |-> EMPTY, tipo_documento |-> tipo_documento, nota |-> EMPTY]

\* <<folio, ocultar, fecha, tipo_documento>> of the rows of the archive
BundleCells ==
    { <<EMPTY, NO, EMPTY, EMPTY>>, <<FolioA, NO, EMPTY, EMPTY>>,
      <<FolioA, NO, D_15_03_2024, T_1>>, <<FolioB, NO, EMPTY, EMPTY>> }

BundleLedgers ==
    UNION { { [i \in 1..k |-> ExtractedRow(i, x[i][1], x[i][2], x[i][3], x[i][4])] :
                x \in [1..k -> BundleCells] } : k \in 0..MaxPipePages }

\* the other archives of documentos/: one with a ledger of two pages whose
\* document 19120264 was split and classified without date or type, and one
\* that has a folder and classified files but no ledger
Caja2 == [doc_name |-> <<"c", "a", "j", "a", "2">>, csv |-> TRUE,
          rows |-> <<ExtractedRow(1, FolioA, NO, EMPTY, EMPTY),
                     ExtractedRow(2, EMPTY, NO, EMPTY, EMPTY)>>,
          files |-> [path \in {<<S_sin_fecha, S_sin_tipo, PdfName(FolioA)>>} |-> <<1, 2>>],
          imagenes |-> {image_filename(1)}]
Caja0 == [doc_name |-> <<"c", "a", "j", "a", "0">>, csv |-> FALSE, rows |-> <<>>,
          files |-> [path \in {<<S_sin_fecha, S_sin_tipo, PdfName(FolioB)>>} |-> <<1>>],
          imagenes |-> {}]
\* the listings of documentos/: os.listdir gives the folders in any order
Listings == { <<Propio>>, <<Propio, Caja2>>, <<Caja2, Propio>>,
              <<Caja0, Propio, Caja2>>, <<Caja2, Caja0, Propio>> }

InitBundle ==
    /\ rows \in BundleLedgers
    /\ fieldnames = ExtractedFieldnames
    /\ imagenes = [name \in {image_filename(i) : i \in 1..Len(rows)} |-> Img_E]
    /\ last_run = NoRun
    /\ documentos \in Listings
    /\ pdf_original = [exists |-> TRUE, page_count |-> MaxPipePages]
    /\ InitRest

\* the archive is split and classified at most once, without a failure,
\* before or between the bundles
NextBundle ==
    \/ split_result = NoSplit /\ SepararPdfs(0)
    \/ est_result = NoEst /\ SepararPdfsPorEstructura
    \/ GenerarEntregableConsolidado
    \/ \E entregable_num \in 1..(MaxRuns + 1), api_key \in BOOLEAN,
          respuesta \in {"ruts", "error"} :
             procesar_entregable_con_ai(entregable_num, api_key, respuesta)

SpecBundle == InitBundle /\ [][NextBundle]_vars

(* ------------------- the ledger, read without the loop ----------------- *)
RowFolio(i) == IF "folio" \in DOMAIN rows[i] THEN rows[i].folio ELSE EMPTY
Hidden(i) == rows[i].ocultar = SI
\* a non-excluded page that carries a folio
Opener(i) == ~Hidden(i) /\ RowFolio(i) # EMPTY
\* j is a non-excluded empty-folio page whose nearest preceding opener is o
Trailer(o, j) ==
    /\ o < j
    /\ ~Hidden(j)
    /\ RowFolio(j) = EMPTY
    /\ \A k \in (o + 1)..j : ~Opener(k)
Ascending(s) == \A a, b \in 1..Len(s) : a < b => s[a] < s[b]
Segmented == split_result.status \in {"success", "error"}

C4_FailureIsolated ==
    split_result.failed > 0 =>
       \A g \in (split_result.failed + 1)..Len(split_result.folio_groups) :
          \E k \in 1..Len(split_result.written) : split_result.written[k].group = g

RowFecha(i) == IF "fecha" \in DOMAIN rows[i] THEN rows[i].fecha ELSE EMPTY
RowTipo(i) == IF "tipo_documento" \in DOMAIN rows[i] THEN rows[i].tipo_documento ELSE EMPTY

\* <<year, month>> directories of the dates that parse; <<>> for the others
YearMonthDirs(f) ==
    CASE f = D_15_03_2024 -> <<<<"2", "0", "2", "4">>, <<"0", "3">>>>
      [] f = D_03_15_2024 -> <<<<"2", "0", "2", "4">>, <<"0", "3">>>>
      [] f = D_2024_03_15 -> <<<<"2", "0", "2", "4">>, <<"0", "3">>>>
      [] f = D_15_03_2024_dash -> <<<<"2", "0", "2", "4">>, <<"0", "3">>>>
      [] f = D_05_12_2023 -> <<<<"2", "0", "2", "3">>, <<"1", "2">>>>
      [] f = D_1_2_2024 -> <<<<"2", "0", "2", "4">>, <<"0", "2">>>>
      [] OTHER -> <<>>

TypeCodes1to4 == {T_1, T_2, T_3, T_4}
TypeName(t) ==
    CASE t = T_1 -> <<"e", "g", "r", "e", "s", "o">>
      [] t = T_2 -> <<"t", "r", "a", "s", "p", "a", "s", "o">>
      [] t = T_3 -> <<"i", "n", "g", "r", "e", "s", "o">>
      [] t = T_4 -> <<"v", "o", "u", "c", "h", "e", "r">>

\* the type directory of every type code of the inputs
TypeDir(t) ==
    CASE t \in TypeCodes1to4 -> TypeName(t)
      [] t = T_01 -> <<"e", "g", "r", "e", "s", "o">>
      [] t = T_5 -> <<"t", "i", "p", "o", "_", "5">>
      [] t = T_0 -> <<"t", "i", "p", "o", "_", "0">>
      [] t = T_12 -> <<"t", "i", "p", "o", "_", "1", "2">>
      [] t = T_neg3 -> <<"t", "i", "p", "o", "_", "-", "3">>
      [] OTHER -> <<"s", "i", "n", "_", "t", "i", "p", "o">>

Classified == est_result.status = "success"
Placed == {est_result.placed[k] : k \in 1..Len(est_result.placed)}
TypeDirOf(destino) == destino[Len(destino) - 1]

\* C6: a non-excluded folio row is placed at <year>/<month, two digits>/<type
\* name>/<folio>.pdf when its date parses and its type code is 1..4, and at
\* sin_fecha/<type>/<folio>.pdf, without a month level, when the date is empty
\* or does not parse (sin_fecha/sin_tipo/<folio>.pdf when the type is empty too).
C6_DestinationPath ==
    Classified =>
      \A e \in Placed :
         LET f == RowFecha(e.row)
             t == RowTipo(e.row)
             ym == YearMonthDirs(f)
             pdf == RowFolio(e.row) \o <<".", "p", "d", "f">>
         IN  /\ (ym # <<>> /\ t \in TypeCodes1to4) =>
                   e.destino = ym \o <<TypeName(t), pdf>>
             /\ ym = <<>> =>
                   /\ Len(e.destino) = 3
                   /\ e.destino[1] = <<"s", "i", "n", "_", "f", "e", "c", "h", "a">>
                   /\ e.destino[3] = pdf
                   /\ t = EMPTY => e.destino[2] = <<"s", "i", "n", "_", "t", "i", "p", "o">>
                   /\ t \in TypeCodes1to4 => e.destino[2] = TypeName(t)
             /\ e.copied => e.destino \in DOMAIN pdfs_estructurados.files

\* one run placed 19120264.pdf (15/03/2024, type 1) under 2024/03/egreso and
\* 19120265.pdf (no date, no type) under sin_fecha/sin_tipo
C6_Witness ==
    /\ Classified
    /\ \E e1, e2 \in Placed :
          /\ e1.copied /\ e2.copied
          /\ RowFecha(e1.row) = D_15_03_2024 /\ RowTipo(e1.row) = T_1
          /\ e1.destino = <<<<"2", "0", "2", "4">>, <<"0", "3">>, <<"e", "g", "r", "e", "s", "o">>, <<"1", "9", "1", "2", "0", "2", "6", "4", ".", "p", "d", "f">>>>
          /\ RowFecha(e2.row) = EMPTY /\ RowTipo(e2.row) = EMPTY
          /\ e2.destino = <<<<"s", "i", "n", "_", "f", "e", "c", "h", "a">>, <<"s", "i", "n", "_", "t", "i", "p", "o">>, <<"1", "9", "1", "2", "0", "2", "6", "5", ".", "p", "d", "f">>>>

\* C7 as stated: codes 1..4 map by the table and every other value, a number
\* outside 1..4 included, maps to sin_tipo.
C7_UnknownIsSinTipo ==
    Classified =>
      \A e \in Placed :
         TypeDirOf(e.destino) =
            (IF RowTipo(e.row) \in TypeCodes1to4 \cup {T_01}
             THEN TypeDir(RowTipo(e.row)) ELSE <<"s", "i", "n", "_", "t", "i", "p", "o">>)

\* C7 amended: codes 1..4 (read as integers) map by the table, a blank or
\* non-integer value maps to sin_tipo, and any other integer n maps to the
\* directory tipo_<n>.
C7_TypeDirectory ==
    Classified =>
      \A e \in Placed : TypeDirOf(e.destino) = TypeDir(RowTipo(e.row))

\* a row with type code "5" was placed under tipo_5
C7_Witness ==
    /\ Classified
    /\ \E e \in Placed : RowTipo(e.row) = T_5 /\ TypeDirOf(e.destino) = <<"t", "i", "p", "o", "_", "5">>

ErrorsOfRow(i) ==
    Cardinality({k \in 1..Len(est_result.errores) : est_result.errores[k].row = i})

\* C8: pdfs_creados counts the rows whose split PDF was copied, and errores has
\* exactly one entry per non-excluded folio row whose <folio>.pdf is missing and
\* none for a row whose PDF was copied.
C8_CountsAndErrors ==
    Classified =>
      /\ est_result.pdfs_creados
           = Cardinality({k \in 1..Len(est_result.placed) : est_result.placed[k].copied})
      /\ \A e \in Placed :
            /\ ~e.copied => ErrorsOfRow(e.row) = 1
            /\ e.copied => ErrorsOfRow(e.row) = 0

\* the pages of the document opened by folio row o, in the current ledger
DocumentPages(o) == {o} \cup {j \in 1..Len(rows) : Trailer(o, j)}
\* the value of the first constituent page that has one, or empty
FirstValue(o, Val(_)) ==
    LET having == {p \in DocumentPages(o) : Val(p) # EMPTY}
    IN  IF having = {} THEN EMPTY ELSE Val(Min(having))

\* C9 as stated: the date and the type that classify a document are those of
\* its first constituent page that has a non-empty value.
C9_FirstPageWithValue ==
    Classified =>
      \A e \in Placed :
         e.destino =
            DirectorioDestino(extraer_fecha_componentes(FirstValue(e.row, RowFecha)),
                              obtener_tipo_documento_nombre(FirstValue(e.row, RowTipo)))
               \o <<PdfName(RowFolio(e.row))>>

\* C9 amended: the date and the type that classify a document are those of the
\* folio-carrying row itself; values on later pages of the document are not
\* used, so an empty date there gives sin_fecha and an empty type sin_tipo.
C9_FolioRowDecides ==
    Classified =>
      \A e \in Placed :
         LET ym == YearMonthDirs(RowFecha(e.row))
         IN  e.destino = (IF ym = <<>> THEN <<<<"s", "i", "n", "_", "f", "e", "c", "h", "a">>>> ELSE ym)
                            \o <<TypeDir(RowTipo(e.row)), RowFolio(e.row) \o <<".", "p", "d", "f">>>>

\* a folio page without date and type, followed by a page of the same document
\* that has both, was placed under sin_fecha/sin_tipo
C9_Witness ==
    /\ Classified
    /\ \E e \in Placed :
          /\ RowFecha(e.row) = EMPTY /\ RowTipo(e.row) = EMPTY
          /\ \E p \in DocumentPages(e.row) :
                RowFecha(p) = D_15_03_2024 /\ RowTipo(p) = T_1
          /\ e.destino[1] = <<"s", "i", "n", "_", "f", "e", "c", "h", "a">> /\ e.destino[2] = <<"s", "i", "n", "_", "t", "i", "p", "o">>

\* C10: every run creates a bundle whose id is at least 1 and is one more than
\* the largest existing numeric suffix (1 when there is no bundle); the ids of
\* the runs are distinct and two runs in a row get consecutive ids.
C10_BundleNumbering ==
    \A k \in 1..Len(bundle_runs) :
       LET r == bundle_runs[k]
       IN  /\ r.num >= 1
           /\ r.num = Cardinality(r.before) + 1
           /\ r.before = {} => r.num = 1
           /\ \A d \in r.before : IntParse(SubSeq(d, Len(S_ENTREGABLE) + 1, Len(d))).val < r.num
           /\ r.before # {} =>
                 \E d \in r.before :
                    IntParse(SubSeq(d, Len(S_ENTREGABLE) + 1, Len(d))).val = r.num - 1
           /\ EntregableName(r.num) \notin r.before
           /\ EntregableName(r.num) \in DOMAIN entregables
           /\ \A j \in 1..(k - 1) : bundle_runs[j].num # r.num
           /\ k > 1 => r.num = bundle_runs[k - 1].num + 1

\* two runs in a row created ENTREGABLE99 and ENTREGABLE100
C10_Witness ==
    /\ Len(bundle_runs) >= 2
    /\ bundle_runs[1].num = 99
    /\ bundle_runs[2].num = 100
    /\ <<"E", "N", "T", "R", "E", "G", "A", "B", "L", "E", "9", "9">> \in DOMAIN entregables
    /\ <<"E", "N", "T", "R", "E", "G", "A", "B", "L", "E", "1", "0", "0">> \in DOMAIN entregables

(* ----------------------- claims on the bundles -------------------------- *)
\* what a step leaves of the bundle folder d: the copied documents, and the
\* rows of the master report without the column of the AI pass
SameDocuments(d) ==
    /\ d \in DOMAIN entregables'
    /\ entregables'[d].pdfs = entregables[d].pdfs
    /\ entregables'[d].registros = entregables[d].registros
    /\ entregables'[d].excel = entregables[d].excel
    /\ entregables'[d].resumen = entregables[d].resumen

RECURSIVE RowsBefore(_, _)
RowsBefore(archivos, k) ==
    IF k <= 1 THEN 0
    ELSE RowsBefore(archivos, k - 1)
            + (IF archivos[k - 1].csv THEN Len(archivos[k - 1].rows) ELSE 0)

\* the row r of the master report carries the archive name and the fields of
\* the ledger row
CarriesLedgerRow(r, a, row) ==
    /\ r.documento_origen = a.doc_name
    /\ r.numero_hoja = row["numero_hoja"]
    /\ r.nombre_img = row["nombre_img"]
    /\ r.path_img_relativo = row["path_img"]
    /\ r.folio = Strip(row["folio"])
    /\ r.rut = row["rut"] /\ r.fecha = row["fecha"] /\ r.nombre = row["nombre"]
    /\ r.estado = row["estado"] /\ r.tipo_documento = row["tipo_documento"]
    /\ r.nota = row["nota"] /\ r.ocultar = row["ocultar"]
    /\ r.q1 = row["q1"] /\ r.q2 = row["q2"]

\* C12: the master report of a bundle has exactly one row per ledger row of
\* every archive that has a ledger, so its row count is the sum of the page
\* counts; the rows of one archive are contiguous and in the page order of its
\* ledger, and each carries the archive name and the fields of its ledger row.
C12_OneRowPerPage ==
    \A d \in DOMAIN entregables :
       LET regs == entregables[d].registros
           archivos == Archivos
       IN  /\ Len(regs) = RowsBefore(archivos, Len(archivos) + 1)
           /\ \A k \in 1..Len(archivos) :
                 archivos[k].csv =>
                    \A i \in 1..Len(archivos[k].rows) :
                       CarriesLedgerRow(regs[RowsBefore(archivos, k) + i],
                                        archivos[k], archivos[k].rows[i])

\* a report of three rows: the two pages of caja2, one of them without folio,
\* then the page of caja1; the folder of caja0 has no ledger and gives no row
C12_Witness ==
    \E d \in DOMAIN entregables :
       LET regs == entregables[d].registros
       IN  /\ Len(documentos) = 3
           /\ Len(regs) = 3
           /\ regs[1].documento_origen = Caja2.doc_name /\ regs[1].folio = FolioA
           /\ regs[2].documento_origen = Caja2.doc_name /\ regs[2].folio = EMPTY
           /\ regs[3].documento_origen = DocName /\ regs[3].numero_hoja = <<"1">>

\* C13 (as stated): pdf_path_entregable of a report row is non-empty only if
\* the row has a folio and the bundle holds a classified <folio>.pdf of the
\* row's own archive, and it then points to that archive's document; it is
\* empty otherwise, also when another archive has a file of the same name.
C13_OwnArchiveOnly ==
    \A d \in DOMAIN entregables :
       LET bundle == entregables[d]
       IN  \A i \in 1..Len(bundle.registros) :
              LET r == bundle.registros[i]
              IN  r.pdf_path_entregable # <<>> =>
                     /\ r.folio # EMPTY
                     /\ r.pdf_path_entregable \in Matches(bundle.pdfs, r.folio)
                     /\ bundle.pdfs[r.pdf_path_entregable].documento_origen
                           = r.documento_origen

(* ----------------------- claims on the ledger --------------------------- *)
\* C14 (as stated): after any sequence of invocations of
\* process_pdf_to_images_and_csv on an archive, also on one that already has
\* a ledger, the numero_hoja values of the ledger are unique and dense: the
\* N rows carry 1..N in order.
C14_DenseUnique ==
    \A i \in 1..Len(rows) : Get(rows[i], "numero_hoja", EMPTY) = NatToStr(i)

\* the operations that resume, according to the claim
Resumable == {"process_pdf_to_images_and_csv", "process_document_ocr"}

\* C15 (as stated): when ingestion or extraction is invoked again on an archive
\* whose previous run was interrupted after page k, it goes on from page k+1:
\* it processes none of the pages 1..k again, and the rows of those pages are
\* neither duplicated nor computed again.
C15_Resumes ==
    [][(/\ last_run.op \in Resumable
        /\ ~last_run.ok /\ last_run.stop >= 2
        /\ last_run'.op = last_run.op
        /\ last_run' # last_run)
       => LET k == last_run.stop - 1
          IN  /\ \A j \in 1..Len(last_run'.pages) : last_run'.pages[j] > k
              /\ Len(rows') >= k /\ SubSeq(rows', 1, k) = SubSeq(rows, 1, k)
              /\ \A i, j \in 1..Len(rows') :
                    rows'[i]["numero_hoja"] = rows'[j]["numero_hoja"] => i = j]_vars

(* ---------------------- claims on the extraction ------------------------ *)
\* what the extraction of each page image of the model gives, taken from
\* running the functions of extraer_datos.py on the texts of the image
Esperado(img) ==
    CASE img = Img_A ->
           [marker |-> TRUE, folio |-> <<"1", "9", "1", "2", "0", "2", "6", "4">>, tipo_documento |-> <<"1">>,
            q1 |-> Img_A.q1, q2 |-> Img_A.q2, rut |-> <<"1", "2", ".", "3", "4", "5", ".", "6", "7", "8", "-", "9">>,
            nombre |-> <<"J", "U", "A", "N", " ", "P", "E", "R", "E", "Z">>, fecha |-> <<"1", "5", "/", "0", "3", "/", "2", "0", "2", "4">>, estado |-> <<"1">>]
      [] img = Img_B ->
           [marker |-> TRUE, folio |-> <<"1", "9", "1", "2", "0", "2", "6", "5">>, tipo_documento |-> <<"2">>,
            q1 |-> Img_B.q1, q2 |-> Img_B.q2, rut |-> <<"1", "2", ".", "3", "4", "5", ".", "6", "7", "8", "-", "K">>,
            nombre |-> EMPTY, fecha |-> <<"1", "-", "2", "-", "2", "0", "2", "4">>, estado |-> <<"4">>]
      [] img = Img_C ->
           [marker |-> FALSE, folio |-> EMPTY, tipo_documento |-> <<"3">>,
            q1 |-> EMPTY, q2 |-> EMPTY, rut |-> EMPTY,
            nombre |-> EMPTY, fecha |-> EMPTY, estado |-> EMPTY]
      [] img = Img_D ->
           [marker |-> TRUE, folio |-> EMPTY, tipo_documento |-> <<"4">>,
            q1 |-> EMPTY, q2 |-> EMPTY, rut |-> EMPTY,
            nombre |-> EMPTY, fecha |-> EMPTY, estado |-> EMPTY]
      [] img = Img_E ->
           [marker |-> FALSE, folio |-> EMPTY, tipo_documento |-> EMPTY,
            q1 |-> EMPTY, q2 |-> EMPTY, rut |-> EMPTY,
            nombre |-> EMPTY, fecha |-> EMPTY, estado |-> EMPTY]
      [] img = Img_F ->
           [marker |-> TRUE, folio |-> <<"1", "9", "1", "2", "0", "2", "6", "5">>, tipo_documento |-> EMPTY,
            q1 |-> EMPTY, q2 |-> EMPTY, rut |-> EMPTY,
            nombre |-> EMPTY, fecha |-> EMPTY, estado |-> EMPTY]

\* the step is a run of process_document_ocr on an archive that has a ledger
OcrStep == last_run'.op = "process_document_ocr" /\ fieldnames # <<>>

\* the pages the run of the step went through before it ended or stopped
OcrHandled == {last_run'.pages[j] : j \in 1..Len(last_run'.pages)}

\* the image of the page of ledger row i is in the folder
HasImage(i) == rows[i]["nombre_img"] \in DOMAIN imagenes

\* the columns the run fills from the page whatever the row held
ExtractedColumns == {"folio", "q1", "q2", "rut", "fecha", "nombre", "tipo_documento"}

SaveStep == last_run'.op = "save_data" /\ fieldnames # <<>>

\* the fields save_data may set from the form
Editable == {"folio", "rut", "fecha", "nombre", "ocultar", "estado",
             "tipo_documento", "nota"}

\* the value of column c in a ledger row; a column the ledger does not have
\* yet reads as the default the handlers give it
Cell(row, c) == Get(row, c, IF c = "ocultar" THEN NO ELSE EMPTY)

\* C17 (as stated): save_data for page p, on a ledger in any lifecycle state,
\* changes only the editable fields of row p: every other row keeps all its
\* values, the other fields of row p are kept, and the row count does not
\* change; when the edit fails or the page is out of range the ledger is
\* identical to before.
C17_EditsOnlyItsRow ==
    [][SaveStep =>
         LET p == last_run'.stop
         IN  /\ Len(rows') = Len(rows)
             /\ \A i \in 1..Len(rows) :
                   \A c \in DOMAIN rows[i] \cup DOMAIN rows'[i] :
                      (i # p \/ c \notin Editable) =>
                          Cell(rows'[i], c) = Cell(rows[i], c)
             /\ ~last_run'.ok => rows' = rows /\ fieldnames' = fieldnames]_vars

\* C18 (as stated): process_document_ocr never changes the human-owned fields
\* nota and ocultar of any row, whether the image of the page exists or is
\* missing.
C18_HumanFieldsKept ==
    [][OcrStep =>
         /\ Len(rows') = Len(rows)
         /\ \A i \in 1..Len(rows) :
               /\ Cell(rows'[i], "nota") = Cell(rows[i], "nota")
               /\ Cell(rows'[i], "ocultar") = Cell(rows[i], "ocultar")]_vars

\* C19 (as stated): after process_document_ocr has processed a page on which
\* a folio was found, the estado stored for the page is the state code read
\* in region Q2, whatever columns the ledger had before the run.
C19_EstadoFromQ2 ==
    [][OcrStep =>
         \A i \in 1..Len(rows) :
            (i \in OcrHandled /\ HasImage(i)) =>
               LET e == Esperado(imagenes[rows[i]["nombre_img"]])
               IN  e.folio # EMPTY => Cell(rows'[i], "estado") = e.estado]_vars

\* the columns read in the regions Q1 and Q2 of a page
RegionColumns == {"q1", "q2", "rut", "fecha", "nombre"}

\* C20: in the row process_document_ocr stores for a page it has read, folio is
\* non-empty only if the text of the page holds the marker "comprobante"; q1,
\* q2, rut, fecha and nombre are non-empty only if folio is non-empty; and
\* tipo_documento is the type found in the text of the whole page, with or
\* without marker and folio.
C20_MarkerGatesFolio ==
    [][OcrStep =>
         \A i \in 1..Len(rows) :
            (i \in OcrHandled /\ HasImage(i)) =>
               LET e == Esperado(imagenes[rows[i]["nombre_img"]])
               IN  /\ {"folio", "tipo_documento"} \cup RegionColumns
                         \subseteq DOMAIN rows'[i]
                   /\ rows'[i]["folio"] # EMPTY => e.marker
                   /\ \A c \in RegionColumns :
                         rows'[i][c] # EMPTY => rows'[i]["folio"] # EMPTY
                   /\ rows'[i]["tipo_documento"] = e.tipo_documento]_vars

\* a page without the marker whose text holds an eight-digit number and the
\* word INGRESO was read: no folio, nothing from the regions, type 3
C20_Witness ==
    /\ last_run.op = "process_document_ocr"
    /\ \E i \in 1..Len(rows) :
          /\ i \in {last_run.pages[j] : j \in 1..Len(last_run.pages)}
          /\ HasImage(i)
          /\ imagenes[rows[i]["nombre_img"]] = Img_C
          /\ rows[i]["folio"] = EMPTY /\ rows[i]["q1"] = EMPTY
          /\ rows[i]["rut"] = EMPTY
          /\ rows[i]["tipo_documento"] = <<"3">>

(* ------------------- claims on failures and defaults -------------------- *)
\* the step is a run of the ingestion on a source that is there
IngestStep == last_run'.op = "process_pdf_to_images_and_csv" /\ pdf_original.exists

\* C21 (as stated): a failure on one page (the rasterization of the page
\* raising during process_pdf_to_images_and_csv) does not abort the archive:
\* every other page of the source is still processed, it gets its image and
\* its ledger row.
C21_PageFailureIsolated ==
    [][IngestStep =>
         \A p \in 1..pdf_original.page_count :
            p # last_run'.stop =>
               /\ \E j \in 1..Len(last_run'.pages) : last_run'.pages[j] = p
               /\ image_filename(p) \in DOMAIN imagenes'
               /\ \E i \in 1..Len(rows') : rows'[i]["numero_hoja"] = NatToStr(p)]_vars

\* the step is a run of save_data or process_document_ocr that wrote the
\* ledger with columns it did not have
AddsColumns ==
    /\ last_run'.op \in {"save_data", "process_document_ocr"}
    /\ fieldnames # <<>>
    /\ SeqSet(fieldnames') # SeqSet(fieldnames)

\* C22 (as stated): when save_data or process_document_ocr rewrites a ledger
\* that lacks optional columns, the ledger read back keeps every value every
\* row had, and in the rows the run did not work on each added column holds
\* the empty string, except ocultar which holds 'NO'.
C22_ColumnsAddedKeepValues ==
    [][AddsColumns =>
         /\ SeqSet(fieldnames) \subseteq SeqSet(fieldnames')
         /\ Len(rows') = Len(rows)
         /\ \A i \in 1..Len(rows) :
               /\ \A c \in SeqSet(fieldnames) :
                     (i \notin {last_run'.pages[j] : j \in 1..Len(last_run'.pages)})
                        => rows'[i][c] = rows[i][c]
               /\ \A c \in {"numero_hoja", "nombre_img", "path_img"} :
                     rows'[i][c] = rows[i][c]
               /\ \A c \in SeqSet(fieldnames') \ SeqSet(fieldnames) :
                     (i \notin {last_run'.pages[j] : j \in 1..Len(last_run'.pages)})
                        => rows'[i][c] = (IF c = "ocultar" THEN NO ELSE EMPTY)]_vars

(* ------------------- the text functions on their own ------------------- *)
\* longest run of digits in a text handed to the folio search
MaxDigits == 9

DigitSource == <<"1", "9", "1", "2", "0", "2", "6", "4", "5", "7", "3", "8">>
Token_19120265 == <<"1", "9", "1", "2", "0", "2", "6", "5">>
\* what may stand directly before or after a run of digits
Affixes == {EMPTY, <<"-">>, <<"9">>, <<" ">>, <<"N">>}
\* a run of digits between two affixes, alone or with a clean token after it
FolioTexts ==
    UNION {{pre \o SubSeq(DigitSource, 1, n) \o post,
            pre \o SubSeq(DigitSource, 1, n) \o post \o <<" ">> \o Token_19120265} :
           <<pre, n, post>> \in Affixes \X (1..MaxDigits) \X Affixes}

\* words of a page text: the keywords in the table's case and in other cases,
\* and a word that is no keyword
TipoWords ==
    {palabras_clave[k][1] : k \in 1..Len(palabras_clave)}
    \cup {Lower(palabras_clave[1][1]), <<"I", "n", "g", "r", "e", "s", "o">>,
          <<"P", "A", "G", "O">>}
\* one word or two, after nothing or after other text
TipoTexts ==
    {EMPTY}
    \cup UNION {{pre \o w1, pre \o w1 \o <<" ">> \o w2} :
               <<pre, w1, w2>> \in {EMPTY, <<"N", " ">>} \X TipoWords \X TipoWords}

\* a day, a month and a year written with one of the separators the date
\* patterns accept, alone or after a label
FechaSeparators == {<<"/">>, <<"-">>, <<".">>, <<" ">>, <<" ", " ">>}
FechaTexts ==
    {pre \o d \o sep \o m \o sep \o <<"2", "0", "2", "4">> :
       <<pre, d, sep, m>> \in {EMPTY, <<"F", ":", " ">>} \X {<<"1", "5">>, <<"5">>}
                               \X FechaSeparators
                               \X {<<"0", "3">>, <<"3">>, <<"1", "2">>}}

Texts == FolioTexts \cup TipoTexts \cup FechaTexts

TextCall(fn, value) ==
    /\ call' = [fn |-> fn, arg |-> call.arg, value |-> value]
    /\ UNCHANGED <<rows, pdf_original, pdfs_separados, split_result,
                   pdfs_estructurados, est_result, entregables, bundle_runs,
                   fieldnames, imagenes, documentos, last_run>>

ExtractFirstFolioToken ==
    TextCall("extract_first_folio_token", extract_first_folio_token(call.arg))

ExtractTipoDocumento ==
    TextCall("extract_tipo_documento_from_text",
             extract_tipo_documento_from_text(call.arg))

\* the date read from the text of region Q2, and the year and month that the
\* classification by structure takes from it
ExtractFecha ==
    \E fecha \in {extract_fecha_from_text(call.arg)} :
       TextCall("extract_fecha_from_text",
                [fecha |-> fecha, componentes |-> extraer_fecha_componentes(fecha)])

InitText ==
    /\ call \in {[fn |-> "none", arg |-> t, value |-> <<>>] : t \in Texts}
    /\ rows = <<>>
    /\ pdf_original = [exists |-> FALSE, page_count |-> 0]
    /\ InitLedgerRest
    /\ pdfs_separados = [exists |-> FALSE, files |-> NoFiles]
    /\ split_result = NoSplit
    /\ pdfs_estructurados = [dirs |-> {}, files |-> NoFiles]
    /\ est_result = NoEst
    /\ entregables = [d \in {} |-> EmptyBundle]
    /\ bundle_runs = <<>>

NextText ==
    \/ ExtractFirstFolioToken
    \/ ExtractTipoDocumento
    \/ ExtractFecha

SpecText == InitText /\ [][NextText]_vars

(* ----------------------- claims on the text functions ------------------ *)
EightDigitsAt(t, i) == \A k \in i..(i + 7) : IsDigit(At(t, k))
\* eight digits at i that no digit touches and no hyphen follows
CleanRight(t, i) ==
    /\ EightDigitsAt(t, i)
    /\ ~IsDigit(At(t, i - 1))
    /\ ~IsDigit(At(t, i + 8)) /\ At(t, i + 8) # "-"
\* eight digits at i that neither a digit nor a hyphen touches on either side
CleanBothSides(t, i) == CleanRight(t, i) /\ At(t, i - 1) # "-"

FolioCall == call.fn = "extract_first_folio_token"

\* C23 as stated: the token returned is the first run of exactly eight digits
\* that neither a digit nor a hyphen touches on either side, and None is
\* returned when the text has no such run
C23_CleanOnBothSides ==
    FolioCall =>
       LET t == call.arg
           clean == {i \in 1..Len(t) : CleanBothSides(t, i)}
       IN  call.value = IF clean = {} THEN None
                        ELSE SubSeq(t, Min(clean), Min(clean) + 7)

\* C23: the token returned is the first run of exactly eight digits that no
\* digit touches on either side and that no hyphen follows; a hyphen before
\* the run does not exclude it; eight digits out of a longer run are never
\* returned
C23_CleanOnTheRight ==
    FolioCall =>
       LET t == call.arg
           clean == {i \in 1..Len(t) : CleanRight(t, i)}
       IN  call.value = IF clean = {} THEN None
                        ELSE SubSeq(t, Min(clean), Min(clean) + 7)

\* a token that a hyphen precedes has been returned
C23_Witness ==
    /\ FolioCall
    /\ call.value # None
    /\ \E i \in 2..Len(call.arg) :
          /\ call.arg[i - 1] = "-"
          /\ EightDigitsAt(call.arg, i)
          /\ \A j \in 1..(i - 1) : ~CleanRight(call.arg, j)

TipoCall == call.fn = "extract_tipo_documento_from_text"
\* position from 1 of the first occurrence of keyword k in the upper-cased
\* text, 0 without one
KeywordAt(t, k) ==
    LET w == palabras_clave[k][1]
        at == {i \in 1..Len(t) : \A j \in 1..Len(w) : At(Upper(t), i + j - 1) = w[j]}
    IN  IF at = {} THEN 0 ELSE Min(at)

\* C25: the code returned is that of the keyword whose first occurrence in the
\* upper-cased text comes earliest, whatever its place in the table, and ''
\* when the text holds no keyword
C25_EarliestKeywordWins ==
    TipoCall =>
       LET t == call.arg
           found == {k \in 1..Len(palabras_clave) : KeywordAt(t, k) # 0}
       IN  IF found = {} THEN call.value = EMPTY
           ELSE \E k \in found :
                   /\ \A o \in found : KeywordAt(t, k) <= KeywordAt(t, o)
                   /\ call.value = palabras_clave[k][2]

\* INGRESO stands before EGRESO in the text and code 3 has been returned
C25_Witness ==
    /\ TipoCall
    /\ KeywordAt(call.arg, 1) # 0
    /\ KeywordAt(call.arg, 3) # 0
    /\ KeywordAt(call.arg, 3) < KeywordAt(call.arg, 1)
    /\ call.value = <<"3">>

FechaCall == call.fn = "extract_fecha_from_text"

\* C28: every non-empty date that extract_fecha_from_text returns, whatever
\* its separator, is parsed by extraer_fecha_componentes into its year and
\* its month, so that no such date is filed under sin_fecha
C28_ExtractedDatesParse ==
    (FechaCall /\ call.value.fecha # EMPTY) =>
       /\ call.value.componentes.ok
       /\ call.value.componentes.year = 2024
       /\ call.value.componentes.month \in {3, 12}

(* ------------------------- claims on empty bundles --------------------- *)
\* C24: a run of generar_entregable_consolidado that gathered no ledger row,
\* its bundle folder and summary created, returns success with zero counts
\* and not a failure
C24_EmptyBundleSucceeds ==
    \A k \in 1..Len(bundle_runs) :
       LET run == bundle_runs[k]
           bundle == entregables[EntregableFolder(run.num)]
       IN  (bundle.resumen /\ bundle.registros = <<>>) =>
              /\ run.success
              /\ run.registros_excel = 0

(* --------------- corrections of the ledger between splits -------------- *)
\* the preview page: app.py descargar_documentos, "for i, row in
\* enumerate(rows)"; st is <<folio_groups, current_group>>
PreviewStep(st, row, page_num) ==
    LET folio == Strip(Get(row, "folio", EMPTY))
        folio_groups == st[1]
        current_group == st[2]
    IN  IF folio # EMPTY
        THEN << IF current_group # NoGroup
                THEN Append(folio_groups,
                            [current_group EXCEPT !.end_page = page_num - 1])
                ELSE folio_groups,
                [folio |-> folio, start_page |-> page_num, end_page |-> page_num,
                 pages |-> <<page_num>>] >>
        ELSE IF current_group # NoGroup
             THEN << folio_groups,
                     [current_group EXCEPT !.end_page = page_num,
                                           !.pages = Append(@, page_num)] >>
             ELSE st

RECURSIVE PreviewLoop(_, _, _)
PreviewLoop(rws, i, st) ==
    IF i > Len(rws) THEN st ELSE PreviewLoop(rws, i + 1, PreviewStep(st, rws[i], i))

\* the folio_groups the preview page shows
PreviewGroups(rws) ==
    LET st == PreviewLoop(rws, 1, << <<>>, NoGroup >>)
    IN  IF st[2] # NoGroup THEN Append(st[1], st[2]) ELSE st[1]

descargar_documentos ==
    /\ fieldnames # <<>>
    /\ call' = [fn |-> "descargar_documentos", arg |-> DocName,
                value |-> PreviewGroups(DictRead(fieldnames, rows))]
    /\ UNCHANGED <<rows, pdf_original, pdfs_separados, split_result,
                   pdfs_estructurados, est_result, entregables, bundle_runs,
                   fieldnames, imagenes, documentos, last_run>>

\* another source in input/ whose name holds the name of the archive
Caja10 == <<"c", "a", "j", "a", "1", "0", ".", "p", "d", "f">>
\* input/ with the source of the archive alone, or next to the other source
\* at either side of it in the listing
InputListings(k) ==
    LET own == [file |-> DocName \o <<".", "p", "d", "f">>, page_count |-> k]
        other == [file |-> Caja10, page_count |-> k]
    IN  {<<own>>, <<other, own>>, <<own, other>>}

\* pages of the ledger that is corrected between splits
MaxEditPages == 1

\* an extracted ledger of one page per page of the source, no page excluded
InitEdit ==
    /\ \E k \in 1..MaxEditPages :
          /\ rows \in {[i \in 1..k |-> ExtractedRow(i, f[i], NO, EMPTY, EMPTY)] :
                          f \in [1..k -> {EMPTY, FolioA, FolioB}]}
          /\ pdf_original \in {[exists |-> TRUE, page_count |-> k, input |-> listing] :
                                  listing \in InputListings(k)}
    /\ fieldnames = ExtractedFieldnames
    /\ imagenes = NoImages
    /\ documentos = <<Propio>>
    /\ last_run = NoRun
    /\ InitRest

NextEdit ==
    \/ \E page \in 1..Len(rows), form \in Forms : save_data(page, form)
    \/ SepararPdfs(0)
    \/ descargar_documentos

SpecEdit == InitEdit /\ [][NextEdit]_vars

(* ------------------- claims on the split after edits ------------------- *)
\* a step of separar_pdfs that wrote files or changed its result
SplitStep == <<split_result, pdfs_separados>>' # <<split_result, pdfs_separados>>

\* C26: after any sequence of save_data and separar_pdfs that ends with a
\* split, pdfs_separados holds exactly one file <folio>.pdf per logical
\* document of the current ledger, with exactly the pages of that document:
\* no file of an earlier split is left, and no document is lost to a file of
\* the same name
C26_SplitFolderMatchesLedger ==
    [][SplitStep =>
         LET groups == FolioGroups(rows')
             files == pdfs_separados'.files
         IN  /\ Cardinality(DOMAIN files) = Len(groups)
             /\ \A g \in 1..Len(groups) :
                   /\ PdfName(groups[g].folio) \in DOMAIN files
                   /\ files[PdfName(groups[g].folio)]
                        = [j \in 1..Len(groups[g].pages) |-> groups[g].pages[j] - 1]
             /\ \A name \in DOMAIN files :
                   \E g \in 1..Len(groups) : name = PdfName(groups[g].folio)]_vars

(* ------------------ claims on the preview and the source --------------- *)
\* the folio and the pages of each group, as separar_pdfs lists them
FolioAndPages(groups) ==
    [g \in 1..Len(groups) |-> [folio |-> groups[g].folio, pages |-> groups[g].pages]]

\* C27: the groups the preview page of descargar_documentos shows for a
\* ledger are the groups separar_pdfs splits for that ledger, also when pages
\* are excluded with ocultar = 'SI'
C27_PreviewMatchesSplit ==
    (call.fn = "descargar_documentos"
       /\ call.value = PreviewGroups(DictRead(fieldnames, rows))) =>
       FolioAndPages(call.value) = FolioGroups(rows)

\* C29: the source separar_pdfs splits is the PDF of input/ whose stem is the
\* name of the archive, never a PDF whose name merely holds that name
C29_SplitsOwnSource ==
    split_result.status \in {"success", "error"} =>
       split_result.pdf_original = DocName \o <<".", "p", "d", "f">>

(* ------------------ claims on corrections and extraction --------------- *)
\* the fields of a page that a correction of the extraction bears on
Corrected == {"folio", "rut", "fecha", "nombre", "tipo_documento"}

\* the step is a run of process_document_ocr that comes straight after a
\* successful save_data for page p and that goes through page p
OcrAfterSave(p) ==
    /\ OcrStep
    /\ last_run.op = "save_data" /\ last_run.ok /\ last_run.stop = p
    /\ p \in 1..Len(rows)
    /\ p \in OcrHandled

\* C30 as stated: the folio, rut, fecha, nombre and tipo_documento saved by
\* save_data for a page are kept by a later run of process_document_ocr
C30_CorrectionsKept ==
    [][\A p \in 1..Len(rows) :
          OcrAfterSave(p) =>
             /\ Corrected \subseteq DOMAIN rows'[p]
             /\ \A c \in Corrected : rows'[p][c] = Cell(rows[p], c)]_vars

\* C30: a run of process_document_ocr that goes through a page whose image
\* exists replaces the folio, rut, fecha, nombre and tipo_documento saved by
\* save_data with the values it extracts from the image; of the fields
\* save_data sets, it keeps estado, nota and ocultar
C30_CorrectionsReplaced ==
    [][\A p \in 1..Len(rows) :
          (OcrAfterSave(p) /\ HasImage(p)) =>
             LET e == Esperado(imagenes[rows[p]["nombre_img"]])
             IN  /\ Corrected \cup {"estado", "nota", "ocultar"} \subseteq DOMAIN rows'[p]
                 /\ \A c \in Corrected : rows'[p][c] = e[c]
                 /\ \A c \in {"estado", "nota", "ocultar"} :
                       rows'[p][c] = rows[p][c]]_vars

\* a page saved with the note 'ver' and the RUT 1-9 has been through a run of
\* process_document_ocr and holds another RUT
C30_Witness ==
    /\ last_run.op = "process_document_ocr"
    /\ \E k \in 1..Len(last_run.pages) :
          LET p == last_run.pages[k]
          IN  /\ p \in 1..Len(rows)
              /\ rows[p]["nombre_img"] \in DOMAIN imagenes
              /\ Cell(rows[p], "nota") = Form_Full.nota
              /\ Cell(rows[p], "rut") # Form_Full.rut

====
